---- MODULE Spec2Model ----
(***************************************************************************)
(* QMCTorch: the atomic-orbital engine (AtomicOrbitals), the harmonics     *)
(* engine (Harmonics) and the electron-electron Jastrow factor             *)
(* (JastrowFactorElectronElectron) as a state machine, with the reader of  *)
(* the ADF basis (CalculatorADF.get_basis_data), two threads in forward    *)
(* (SpecThreads) and the interpolation of the molecular orbitals           *)
(* (SpecInterp).                                                           *)
(*                                                                         *)
(* Tensors are sequences (1-based); the index tensors of the code          *)
(* (index_ctr, index_row, index_col) keep their 0-based VALUES and are     *)
(* shifted by one where they index a sequence.  Real numbers are integers: *)
(* the arithmetic the kernels do (sums and products) is exact on them.     *)
(* The spherical harmonics divide by powers of r: there r and 1/r are     *)
(* elements of the field of FieldPrime elements.                           *)
(***************************************************************************)
EXTENDS Integers, Sequences, FiniteSets, TLC

VARIABLES
    mol,        \* the Molecule handed to the constructors (never written)
    ao,         \* the AtomicOrbitals object (its fields; built = how __init__ ended)
    harm,       \* a Harmonics object built from mol.basis.harmonics_type
    jastrow,    \* the JastrowFactorElectronElectron object
    call,       \* the last call made on one of the objects, and how it ended
    threads,    \* the forward calls two threads have in progress on ao
    interp      \* an InterpolateMolecularOrbitals object and the wf it holds

vars == <<mol, ao, harm, jastrow, call, threads, interp>>

----------------------------------------------------------------------------
(* Bounds of the model *)

\* electron counts 2..MaxElec
MaxElec == 3
\* derivative orders requested: 0..MaxDeriv (0..3 are the orders the code knows)
MaxDeriv == 4
\* rows of a position batch: 1..MaxBatch
MaxBatch == 2

(* Program constants *)

\* self.ndim = 3
ndim == 3

----------------------------------------------------------------------------
(* Generic helpers on sequences *)

RECURSIVE SeqSum(_)
SeqSum(s) == IF s = <<>> THEN 0 ELSE Head(s) + SeqSum(Tail(s))

RECURSIVE Flatten(_)
Flatten(rows) == IF rows = <<>> THEN <<>> ELSE Head(rows) \o Flatten(Tail(rows))

InSeq(x, s) == \E i \in 1..Len(s) : s[i] = x

\* a local variable: F applied to the value of x, x evaluated once
Bind(x, F(_)) == CHOOSE r \in { F(y) : y \in {x} } : TRUE

Vec3Sum(v) == v[1] + v[2] + v[3]

----------------------------------------------------------------------------
(* The basis record handed over by the SCF calculators, and sample molecules *)

\* the harmonics types and radial types a basis may declare; "foo", "sto_x" and
\* "bar" are unrecognized ("sto_x" starts with "sto" but is no key of radial_dict)
HarmonicsTypes == {"cart", "sph", "foo"}
RadialTypes == {"sto", "gto", "sto_pure", "gto_pure", "sto_x", "bar"}

\* str.startswith("sto") / str.startswith("gto") on the radial types above
StartsWithSto(rt) == rt \in {"sto", "sto_pure", "sto_x"}
StartsWithGto(rt) == rt \in {"gto", "gto_pure"}

\* sample points an electron may sit at (none is an atom position: r > 0)
Points == { <<0, 0, 1>>, <<1, 2, 0>> }

\* sample cartesian exponents (kx, ky, kz) of the primitives
KSamples == << <<0, 0, 0>>, <<1, 0, 0>>, <<0, 1, 2>> >>

\* sample contraction maps (primitive -> orbital, 0-based, as the calculators
\* build them: non-decreasing and onto 0..nao-1)
CtrSamples == { <<0>>, <<0, 0>>, <<0, 1>>, <<0, 1, 1>> }

\* sample contraction coefficients for n primitives
CoeffSamples(n) == { [p \in 1..n |-> 1], [p \in 1..n |-> p + 1], [p \in 1..n |-> 3 - (p % 2)] }

MakeBasis(h, rt, ctr, coeffs) ==
    LET n == Len(ctr) IN
    [ harmonics_type |-> h,
      radial_type    |-> rt,
      nao            |-> ctr[n] + 1,
      nshells        |-> IF n = 1 THEN <<1>> ELSE <<n - 1, 1>>,
      atom_coords    |-> IF n = 1 THEN << <<0, 0, 0>> >>
                                  ELSE << <<0, 0, 0>>, <<0, 0, 2>> >>,
      index_ctr      |-> ctr,
      bas_coeffs     |-> coeffs,
      bas_exp        |-> [p \in 1..n |-> p],
      bas_n          |-> [p \in 1..n |-> p],
      bas_kr         |-> [p \in 1..n |-> p - 1],
      bas_kx         |-> [p \in 1..n |-> KSamples[p][1]],
      bas_ky         |-> [p \in 1..n |-> KSamples[p][2]],
      bas_kz         |-> [p \in 1..n |-> KSamples[p][3]],
      bas_l          |-> [p \in 1..n |-> 0],
      bas_m          |-> [p \in 1..n |-> 0],
      \* the value the closed form of norm_orbital.py yields for primitive p
      norm_val       |-> [p \in 1..n |-> p + 1] ]

\* the keyword arguments the standalone Harmonics object is built with: ten
\* primitives covering every (l, m) with l <= 2, not in the order of l or m and
\* with (1, 0) twice, and the sample exponents in turn
HarmonicsKwargs ==
    [ bas_l  |-> <<1, 0, 2, 1, 2, 1, 2, 2, 2, 1>>,
      bas_m  |-> <<0, 0, -1, 1, 2, -1, 0, -2, 1, 0>>,
      bas_kx |-> [p \in 1..10 |-> KSamples[(p % 3) + 1][1]],
      bas_ky |-> [p \in 1..10 |-> KSamples[(p % 3) + 1][2]],
      bas_kz |-> [p \in 1..10 |-> KSamples[(p % 3) + 1][3]] ]

MakeMol(h, rt, ctr, coeffs, n) ==
    [ nelec |-> n, nup |-> n - (n \div 2), ndown |-> n \div 2,
      basis |-> MakeBasis(h, rt, ctr, coeffs) ]

\* the molecules the model is started from: every type pair on one basis, every
\* sample basis under the two recognized harmonics types, every electron count
MolSamples ==
    { MakeMol(h, rt, <<0, 1>>, <<1, 1>>, 2) : h \in HarmonicsTypes, rt \in RadialTypes }
    \cup UNION { { MakeMol(h, "sto", c, k, 2) : k \in CoeffSamples(Len(c)) } :
                 h \in {"cart", "sph"}, c \in CtrSamples }
    \cup { MakeMol(h, "gto", <<0, 0>>, <<1, 2>>, n) : h \in {"cart", "sph"}, n \in 2..MaxElec }

----------------------------------------------------------------------------
(* Construction *)

\* torch.unique read as keeping every entry, repeated or not
Range_keeping_repeats(s) == 1..Len(s)

Range(s) == { s[i] : i \in 1..Len(s) }

\* Harmonics.__init__: stores the type and registers the quantum numbers of a
\* recognized type; it has no else branch and raises nothing
Harmonics__init__(type, basis) ==
    [ built |-> "ok",
      type  |-> type,
      bas_l |-> IF type = "sph" THEN basis.bas_l ELSE <<>>,
      bas_m |-> IF type = "sph" THEN basis.bas_m ELSE <<>>,
      bas_k |-> IF type = "cart"
                THEN [p \in 1..Len(basis.bas_kx) |->
                          <<basis.bas_kx[p], basis.bas_ky[p], basis.bas_kz[p]>>]
                ELSE <<>> ]

norm_slater_spherical(basis) == basis.norm_val
norm_gaussian_spherical(basis) == basis.norm_val
norm_slater_cartesian(basis) == basis.norm_val
norm_gaussian_cartesian(basis) == basis.norm_val

\* atomic_orbital_norm: what the call yields: a tensor, an exception, or None
\* when neither harmonics branch is taken (the function then falls off its end)
atomic_orbital_norm(basis) ==
    IF basis.harmonics_type = "sph" THEN
        IF StartsWithSto(basis.radial_type)
            THEN [kind |-> "tensor", val |-> norm_slater_spherical(basis)]
        ELSE IF StartsWithGto(basis.radial_type)
            THEN [kind |-> "tensor", val |-> norm_gaussian_spherical(basis)]
        ELSE [kind |-> "ValueError", val |-> <<>>]
    ELSE IF basis.harmonics_type = "cart" THEN
        IF StartsWithSto(basis.radial_type)
            THEN [kind |-> "tensor", val |-> norm_slater_cartesian(basis)]
        ELSE IF StartsWithGto(basis.radial_type)
            THEN [kind |-> "tensor", val |-> norm_gaussian_cartesian(basis)]
        ELSE [kind |-> "ValueError", val |-> <<>>]
    ELSE [kind |-> "None", val |-> <<>>]

\* the keys of radial_dict
radial_dict == {"sto", "gto", "sto_pure", "gto_pure"}

\* AtomicOrbitals.__init__: built = "ok", or the exception the constructor ends with
AtomicOrbitals__init__(m) ==
    LET b    == m.basis
        norm == atomic_orbital_norm(b)
        built == IF b.radial_type \notin radial_dict THEN "KeyError"
                 ELSE IF norm.kind = "ValueError" THEN "ValueError"
                 ELSE IF norm.kind = "None" THEN "AttributeError"
                 ELSE "ok"
    IN  [ built          |-> built,
          nelec          |-> m.nelec,
          norb           |-> b.nao,
          atom_coords    |-> b.atom_coords,
          natoms         |-> Len(b.atom_coords),
          nshells        |-> b.nshells,
          nbas           |-> SeqSum(b.nshells),
          index_ctr      |-> b.index_ctr,
          contract       |-> ~(Cardinality(Range(b.index_ctr)) = Len(b.index_ctr)),
          bas_coeffs     |-> b.bas_coeffs,
          bas_exp        |-> b.bas_exp,
          harmonics_type |-> b.harmonics_type,
          bas_n          |-> IF b.harmonics_type = "sph" THEN b.bas_n
                             ELSE IF b.harmonics_type = "cart" THEN b.bas_kr
                             ELSE <<>>,
          harmonics      |-> Harmonics__init__(b.harmonics_type, b),
          radial_type    |-> b.radial_type,
          norm_cst       |-> norm.val ]

----------------------------------------------------------------------------
(* The radial library (radial_functions.py is not part of the sources at     *)
(* hand).  Its contract: a profile of r = |xyz| and of the primitive's n and *)
(* exponent, differentiated by the chain rule through r.  The profile and    *)
(* its derivatives with respect to r are kept uninterpreted: an integer code *)
(* of (radial type, order, r^2, n, exponent).                                *)

Dot3(d) == d[1] * d[1] + d[2] * d[2] + d[3] * d[3]

RadialTypeIdx(rt) ==
    CASE rt = "sto" -> 0 [] rt = "gto" -> 1 [] rt = "sto_pure" -> 2 [] OTHER -> 3

RadialProfile(rt, ord, r2, n, zeta) == 1 + ((RadialTypeIdx(rt) + 2 * ord + r2 + n + zeta) % 4)

\* one derivative order of the radial part of one primitive at displacement d
radial_order(rt, d, n, zeta, ord, sum_grad, sum_hess) ==
    LET r2   == Dot3(d)
        f(o) == RadialProfile(rt, o, r2, n, zeta)
        g    == [k \in 1..3 |-> d[k] * f(1)]
        h    == [k \in 1..3 |-> d[k] * d[k] * f(2) + f(1)]
        mx   == << d[1] * d[2] * f(2), d[1] * d[3] * f(2), d[2] * d[3] * f(2) >>
    IN  CASE ord = 0 -> f(0)
          [] ord = 1 -> IF sum_grad THEN Vec3Sum(g) ELSE g
          [] ord = 2 -> IF sum_hess THEN Vec3Sum(h) ELSE h
          [] OTHER   -> mx

\* self.radial(r, self.bas_n, self.bas_exp, xyz=, derivative=, sum_grad=, sum_hess=)
\* for the primitives of one electron: one tensor when one order is asked for,
\* else the list of them
radial(self, xyz, derivative, sum_grad, sum_hess) ==
    LET out == [i \in 1..Len(derivative) |->
                  [p \in 1..Len(xyz) |->
                      radial_order(self.radial_type, xyz[p], self.bas_n[p],
                                   self.bas_exp[p], derivative[i], sum_grad, sum_hess)]]
    IN  IF Len(derivative) = 1 THEN out[1] ELSE out

----------------------------------------------------------------------------
(* The harmonics engine *)

\* utils.fast_power (not part of the sources at hand): x^k by repeated
\* multiplication, x^0 = 1 also for x = 0
RECURSIVE fast_power(_, _)
fast_power(x, k) == IF k <= 0 THEN 1 ELSE x * fast_power(x, k - 1)

\* CartesianHarmonics._kernel
Cart_kernel(d, k) ==
    fast_power(d[1], k[1]) * fast_power(d[2], k[2]) * fast_power(d[3], k[3])

\* k - 1 (k - 2) with the negative entries left as they are
Sub_unclamped(k, c) == [i \in 1..3 |-> k[i] - c]

\* k - 1 (k - 2) with the negative entries set to 0
ClampSub(k, c) == [i \in 1..3 |-> IF k[i] - c < 0 THEN 0 ELSE k[i] - c]

\* CartesianHarmonics._first_derivative_kernel
Cart_first_derivative_kernel(d, k, sum_grad) ==
    LET km1 == ClampSub(k, 1)
        xk(i)   == fast_power(d[i], k[i])
        xkm1(i) == fast_power(d[i], km1[i])
        dx == k[1] * xkm1(1) * xk(2) * xk(3)
        dy == k[2] * xk(1) * xkm1(2) * xk(3)
        dz == k[3] * xk(1) * xk(2) * xkm1(3)
    IN  IF sum_grad THEN dx + dy + dz ELSE <<dx, dy, dz>>

\* CartesianHarmonics._second_derivative_kernel
Cart_second_derivative_kernel(d, k, sum_hess) ==
    LET km2 == ClampSub(k, 2)
        xk(i)   == fast_power(d[i], k[i])
        xkm2(i) == fast_power(d[i], km2[i])
        d2x == k[1] * (k[1] - 1) * xkm2(1) * xk(2) * xk(3)
        d2y == k[2] * (k[2] - 1) * xk(1) * xkm2(2) * xk(3)
        d2z == k[3] * (k[3] - 1) * xk(1) * xk(2) * xkm2(3)
    IN  IF sum_hess THEN d2x + d2y + d2z ELSE <<d2x, d2y, d2z>>

\* CartesianHarmonics._mixed_second_derivative_kernel
Cart_mixed_second_derivative_kernel(d, k) ==
    LET km1 == ClampSub(k, 1)
        xk(i)   == fast_power(d[i], k[i])
        xkm1(i) == fast_power(d[i], km1[i])
    IN  << k[1] * xkm1(1) * k[2] * xkm1(2) * xk(3),
           k[1] * xkm1(1) * xk(2) * k[3] * xkm1(3),
           xk(1) * k[2] * xkm1(2) * k[3] * xkm1(3) >>

\* fns[d]() of CartesianHarmonics
Cart_fns(ord, d, k, sum_grad, sum_hess) ==
    CASE ord = 0 -> Cart_kernel(d, k)
      [] ord = 1 -> Cart_first_derivative_kernel(d, k, sum_grad)
      [] ord = 2 -> Cart_second_derivative_kernel(d, k, sum_hess)
      [] OTHER   -> Cart_mixed_second_derivative_kernel(d, k)

\* CartesianHarmonics on the primitives of one electron
CartesianHarmonics(xyz, k, derivative, sum_grad, sum_hess) ==
    LET output == [i \in 1..Len(derivative) |->
                     [p \in 1..Len(xyz) |->
                         Cart_fns(derivative[i], xyz[p], k[p], sum_grad, sum_hess)]]
    IN  IF Len(derivative) = 1 THEN output[1] ELSE output

\* how CartesianHarmonics ends: fns has the four entries 0..3
CartesianHarmonicsRaises(derivative) ==
    IF \E i \in 1..Len(derivative) : derivative[i] > 3 THEN "IndexError" ELSE "ok"

\* The real numbers of the closed forms are carried in the prime field of
\* FieldPrime elements, where the square root and the division of the code are
\* exact: an identity between the closed forms that holds over the reals holds
\* between their images modulo FieldPrime.
FieldPrime == 101

\* torch.sqrt: the least root of a in the field (the sample points have a root)
FieldRoot(a) == CHOOSE s \in 0..(FieldPrime - 1) : (s * s) % FieldPrime = a % FieldPrime

\* 1.0 / a in the field
FieldInverse(a) == CHOOSE b \in 1..(FieldPrime - 1) : (a * b) % FieldPrime = 1

\* a ** n in the field
RECURSIVE FieldPower(_, _)
FieldPower(a, n) == IF n = 0 THEN 1 ELSE (a * FieldPower(a, n - 1)) % FieldPrime

\* 1 / r**n at the point q, r = torch.sqrt((xyz**2).sum(3))
rinv(q, n) == FieldInverse(FieldPower(FieldRoot(Dot3(q)), n))

\* the constants of the closed forms, in units of 1e-4
c_l0 == 2821
c_l1 == 4886
c0_l2 == 3154
c2_l2 == 5463
cm_l2 == 10925

\* _spherical_harmonics_l0, _nabla_spherical_harmonics_l0 and
\* _grad_spherical_harmonics_l0 for one primitive
_spherical_harmonics_l0(q) == c_l0
_nabla_spherical_harmonics_l0(q) == 0
_grad_spherical_harmonics_l0(q) == <<0, 0, 0>>

\* index with the coordinates in the order of m: {-1: 0, 0: 1, 1: 2}
index_l1_in_order(m) == CASE m = -1 -> 1 [] m = 0 -> 2 [] m = 1 -> 3

\* index = {-1: 1, 0: 2, 1: 0}, as a position of the triple (x, y, z)
index_l1(m) == CASE m = -1 -> 2 [] m = 0 -> 3 [] m = 1 -> 1

\* _spherical_harmonics_l1
_spherical_harmonics_l1(q, m) == c_l1 * q[index_l1(m)] * rinv(q, 1)

\* _nabla_spherical_harmonics_l1
_nabla_spherical_harmonics_l1(q, m) ==
    c_l1 * (rinv(q, 1) - q[index_l1(m)] * Vec3Sum(q) * rinv(q, 3))

\* _grad_spherical_harmonics_l1
_grad_spherical_harmonics_l1(q, m) ==
    LET x == q[1]
        y == q[2]
        z == q[3]
        p == c_l1 * rinv(q, 3)
    IN  CASE m = -1 -> << p * (0 - y * x), p * (x * x + z * z), p * (0 - y * z) >>
          [] m = 0  -> << p * (0 - z * x), p * (0 - z * y), p * (x * x + y * y) >>
          [] m = 1  -> << p * (y * y + z * z), p * (0 - x * y), p * (0 - x * z) >>

\* _lap_spherical_harmonics_l1
_lap_spherical_harmonics_l1(q, m) == c_l1 * ((0 - 2) * q[index_l1(m)] * rinv(q, 3))

\* index = {-2: [0, 1], -1: [1, 2], 1: [2, 0]}, as positions of the triple
index_l2(m) == CASE m = -2 -> <<1, 2>> [] m = -1 -> <<2, 3>> [] m = 1 -> <<3, 1>>

\* _spherical_harmonics_l2
_spherical_harmonics_l2(q, m) ==
    LET x == q[1]
        y == q[2]
        z == q[3]
    IN  IF m = 0 THEN c0_l2 * (0 - x * x - y * y + 2 * z * z) * rinv(q, 2)
        ELSE IF m = 2 THEN c2_l2 * (x * x - y * y) * rinv(q, 2)
        ELSE cm_l2 * q[index_l2(m)[1]] * q[index_l2(m)[2]] * rinv(q, 2)

\* _nabla_spherical_harmonics_l2
_nabla_spherical_harmonics_l2(q, m) ==
    LET x == q[1]
        y == q[2]
        z == q[3]
    IN  IF m = 0
        THEN c0_l2 * ((0 - 2 * x - 2 * y + 4 * z) * rinv(q, 2)
                      - 2 * (0 - x * x - y * y + 2 * z * z) * Vec3Sum(q) * rinv(q, 3))
        ELSE IF m = 2
        THEN c2_l2 * (2 * (x - y) * rinv(q, 2)
                      - 2 * (x * x - y * y) * Vec3Sum(q) * rinv(q, 3))
        ELSE cm_l2 * ((q[index_l2(m)[1]] + q[index_l2(m)[2]]) * rinv(q, 2)
                      - 2 * q[index_l2(m)[1]] * q[index_l2(m)[2]] * Vec3Sum(q) * rinv(q, 3))

\* _grad_spherical_harmonics_l2 (its factor is named c0 in every branch and has
\* the value of c0 for m in -2..1 and that of c2 for m = 2)
_grad_spherical_harmonics_l2(q, m) ==
    LET x == q[1]
        y == q[2]
        z == q[3]
        p == (IF m = 2 THEN c2_l2 ELSE c0_l2) * rinv(q, 4)
    IN  CASE m = -2 -> << p * (y * (0 - x * x + y * y + z * z)),
                          p * (x * (0 - y * y + x * x + z * z)),
                          p * ((0 - 2) * x * y * z) >>
          [] m = -1 -> << p * ((0 - 2) * x * y * z),
                          p * (z * (0 - y * y + x * x + z * z)),
                          p * (y * (0 - z * z + x * x + y * y)) >>
          [] m = 0  -> << p * ((0 - 6) * x * z * z),
                          p * ((0 - 6) * y * z * z),
                          p * (6 * x * x * z + 6 * y * y * z) >>
          [] m = 1  -> << p * (z * (0 - x * x + y * y + z * z)),
                          p * ((0 - 2) * x * y * z),
                          p * (x * (x * x + y * y - z * z)) >>
          [] m = 2  -> << p * (4 * x * y * y + 2 * x * z * z),
                          p * ((0 - 4) * x * x * y - 2 * y * z * z),
                          p * ((0 - 2) * z * (x * x - y * y)) >>

\* _lap_spherical_harmonics_l2
_lap_spherical_harmonics_l2(q, m) ==
    LET x2 == q[1] * q[1]
        y2 == q[2] * q[2]
        z2 == q[3] * q[3]
    IN  IF m = 0
        THEN c0_l2 * (6 * rinv(q, 6) * (x2 + y2) * (x2 + y2) - z2 * (x2 + y2 - 2 * z2))
        ELSE IF m = 2
        THEN c2_l2 * (6 * rinv(q, 6) * z2 * (y2 - x2) + y2 * y2 - x2 * x2)
        ELSE cm_l2 * ((0 - 6) * q[index_l2(m)[1]] * q[index_l2(m)[2]] * rinv(q, 4))

\* the closed form the dispatch of get_spherical_harmonics calls for the
\* quantum numbers (lval, mval) and an order in 0..2
SphClosedForm(lval, mval, derivative, q) ==
    IF lval = 1
    THEN CASE derivative = 0 -> _spherical_harmonics_l1(q, mval)
           [] derivative = 1 -> _nabla_spherical_harmonics_l1(q, mval)
           [] derivative = 2 -> _lap_spherical_harmonics_l1(q, mval)
    ELSE CASE derivative = 0 -> _spherical_harmonics_l2(q, mval)
           [] derivative = 1 -> _nabla_spherical_harmonics_l2(q, mval)
           [] derivative = 2 -> _lap_spherical_harmonics_l2(q, mval)

\* the closed form get_grad_spherical_harmonics calls for (lval, mval)
SphGradClosedForm(lval, mval, q) ==
    IF lval = 1 THEN _grad_spherical_harmonics_l1(q, mval)
    ELSE _grad_spherical_harmonics_l2(q, mval)

\* Y[:, :, ind] = src for the primitives under the mask: the tensor with
\* these slots overwritten, and the number of writes each slot has received
MaskedWrite(acc, mask, src) ==
    [ Y |-> [p \in 1..Len(acc.Y) |-> IF mask[p] THEN src[p] ELSE acc.Y[p]],
      n |-> [p \in 1..Len(acc.n) |-> IF mask[p] THEN acc.n[p] + 1 ELSE acc.n[p]] ]

\* "for mval in [...]" of get_spherical_harmonics for the quantum number lcur,
\* from the head of mvals on
RECURSIVE SphLoop(_, _, _, _, _, _, _)
SphLoop(acc, xyz, lval, m, lcur, mvals, derivative) ==
    IF mvals = <<>> THEN acc
    ELSE LET mval == Head(mvals)
             mask == [p \in 1..Len(xyz) |-> lval[p] = lcur /\ m[p] = mval]
         IN  IF (\E p \in 1..Len(xyz) : mask[p]) /\ derivative \in {0, 1, 2}
             THEN Bind(MaskedWrite(acc, mask,
                                   [p \in 1..Len(xyz) |->
                                       IF mask[p]
                                       THEN SphClosedForm(lcur, mval, derivative, xyz[p])
                                       ELSE 0]),
                       LAMBDA a : SphLoop(a, xyz, lval, m, lcur, Tail(mvals), derivative))
             ELSE SphLoop(acc, xyz, lval, m, lcur, Tail(mvals), derivative)

\* the same loop of get_grad_spherical_harmonics
RECURSIVE SphGradLoop(_, _, _, _, _, _)
SphGradLoop(acc, xyz, lval, m, lcur, mvals) ==
    IF mvals = <<>> THEN acc
    ELSE LET mval == Head(mvals)
             mask == [p \in 1..Len(xyz) |-> lval[p] = lcur /\ m[p] = mval]
         IN  IF \E p \in 1..Len(xyz) : mask[p]
             THEN Bind(MaskedWrite(acc, mask,
                                   [p \in 1..Len(xyz) |->
                                       IF mask[p] THEN SphGradClosedForm(lcur, mval, xyz[p])
                                       ELSE <<0, 0, 0>>]),
                       LAMBDA a : SphGradLoop(a, xyz, lval, m, lcur, Tail(mvals)))
             ELSE SphGradLoop(acc, xyz, lval, m, lcur, Tail(mvals))

\* get_spherical_harmonics on the primitives of one electron, statement by
\* statement: Y starts as zeros; the l = 0 slots are written for the orders 0
\* and 1 only; then the loops over m for l = 1 and for l = 2
get_spherical_harmonics_run(xyz, lval, m, derivative) ==
    LET N    == Len(xyz)
        acc0 == [Y |-> [p \in 1..N |-> 0], n |-> [p \in 1..N |-> 0]]
        ind0 == [p \in 1..N |-> lval[p] = 0]
    IN  Bind(IF derivative = 0
             THEN MaskedWrite(acc0, ind0, [p \in 1..N |-> _spherical_harmonics_l0(xyz[p])])
             ELSE IF derivative = 1
             THEN MaskedWrite(acc0, ind0, [p \in 1..N |-> _nabla_spherical_harmonics_l0(xyz[p])])
             ELSE acc0,
        LAMBDA a0 :
        Bind(IF \E p \in 1..N : lval[p] = 1
             THEN SphLoop(a0, xyz, lval, m, 1, <<-1, 0, 1>>, derivative)
             ELSE a0,
        LAMBDA a1 :
             IF \E p \in 1..N : lval[p] = 2
             THEN SphLoop(a1, xyz, lval, m, 2, <<-2, -1, 0, 1, 2>>, derivative)
             ELSE a1))

\* get_spherical_harmonics: the tensor Y it returns, (Nbas) for one electron
get_spherical_harmonics(xyz, lval, m, derivative) ==
    get_spherical_harmonics_run(xyz, lval, m, derivative).Y

\* get_grad_spherical_harmonics statement by statement: Y starts as
\* zeros_like(xyz), the l = 0 slots are written, then the two loops over m
get_grad_spherical_harmonics_run(xyz, lval, m) ==
    LET N    == Len(xyz)
        acc0 == [Y |-> [p \in 1..N |-> <<0, 0, 0>>], n |-> [p \in 1..N |-> 0]]
        ind0 == [p \in 1..N |-> lval[p] = 0]
    IN  Bind(MaskedWrite(acc0, ind0, [p \in 1..N |-> _grad_spherical_harmonics_l0(xyz[p])]),
        LAMBDA a0 :
        Bind(IF \E p \in 1..N : lval[p] = 1
             THEN SphGradLoop(a0, xyz, lval, m, 1, <<-1, 0, 1>>)
             ELSE a0,
        LAMBDA a1 :
             IF \E p \in 1..N : lval[p] = 2
             THEN SphGradLoop(a1, xyz, lval, m, 2, <<-2, -1, 0, 1, 2>>)
             ELSE a1))

\* get_grad_spherical_harmonics: the tensor it returns, (Nbas, 3) for one electron
get_grad_spherical_harmonics(xyz, lval, m) ==
    get_grad_spherical_harmonics_run(xyz, lval, m).Y

\* how SphericalHarmonics ends
SphericalHarmonicsRaises(derivative, sum_grad, sum_hess) ==
    IF ~sum_hess THEN "NotImplementedError"
    ELSE IF sum_grad THEN "ok"
    ELSE IF derivative # <<1>> THEN "ValueError"
    ELSE "ok"

\* SphericalHarmonics on the primitives of one electron (when it does not raise)
SphericalHarmonics(xyz, l, m, derivative, sum_grad, sum_hess) ==
    IF sum_grad
    THEN LET output == [i \in 1..Len(derivative) |->
                          get_spherical_harmonics(xyz, l, m, derivative[i])]
         IN  IF Len(derivative) = 1 THEN output[1] ELSE output
    ELSE get_grad_spherical_harmonics(xyz, l, m)

\* the number of axes the tensor of one requested order has after the
\* primitive axis: 1 where the code stacks three terms on dim=-1 or starts
\* from zeros_like(xyz), 0 where it sums or starts from zeros_like(xyz[..., 0])
HarmonicsOutputAxes(h, ord, sum_grad, sum_hess) ==
    IF h.type = "cart"
    THEN CASE ord = 0 -> 0
           [] ord = 1 -> IF sum_grad THEN 0 ELSE 1
           [] ord = 2 -> IF sum_hess THEN 0 ELSE 1
           [] OTHER   -> 1
    ELSE IF sum_grad THEN 0 ELSE 1

\* Harmonics.__call__: how it ends
HarmonicsRaises(h, derivative, sum_grad, sum_hess) ==
    IF h.type = "cart" THEN CartesianHarmonicsRaises(derivative)
    ELSE IF h.type = "sph" THEN SphericalHarmonicsRaises(derivative, sum_grad, sum_hess)
    ELSE "ValueError"

\* Harmonics.__call__: what it returns when it does not raise
Harmonics__call__(h, xyz, derivative, sum_grad, sum_hess) ==
    IF h.type = "cart"
    THEN CartesianHarmonics(xyz, h.bas_k, derivative, sum_grad, sum_hess)
    ELSE SphericalHarmonics(xyz, h.bas_l, h.bas_m, derivative, sum_grad, sum_hess)

----------------------------------------------------------------------------
(* The orbital kernels, on the primitives of one electron of one walker     *)
(* (every kernel is element-wise along the batch and electron axes)         *)

\* torch.zeros(..., self.norb) and torch.zeros(..., self.norb, 3)
zeros(n) == [o \in 1..n |-> 0]
zeros3(n) == [o \in 1..n |-> <<0, 0, 0>>]

Add3(u, v) == <<u[1] + v[1], u[2] + v[2], u[3] + v[3]>>
Scale3(c, v) == <<c * v[1], c * v[2], c * v[3]>>

\* Tensor.index_add_(2, index, src): in turn for each p, src[p] is added to
\* entry index[p] of the accumulator
RECURSIVE index_add(_, _, _)
index_add(acc, index, src) ==
    IF index = <<>> THEN acc
    ELSE index_add([acc EXCEPT ![Head(index) + 1] = @ + Head(src)], Tail(index), Tail(src))

\* the same with a trailing axis of size 3
RECURSIVE index_add3(_, _, _)
index_add3(acc, index, src) ==
    IF index = <<>> THEN acc
    ELSE index_add3([acc EXCEPT ![Head(index) + 1] = Add3(@, Head(src))],
                    Tail(index), Tail(src))

\* AtomicOrbitals._contract
_contract(self, bas) ==
    LET cbas == [p \in 1..Len(bas) |-> self.bas_coeffs[p] * bas[p]]
    IN  index_add(zeros(self.norb), self.index_ctr, cbas)

\* AtomicOrbitals._ao_kernel
_ao_kernel(self, R, Y) ==
    LET a == [p \in 1..Len(R) |-> self.norm_cst[p] * R[p] * Y[p]]
    IN  IF self.contract THEN _contract(self, a) ELSE a

\* AtomicOrbitals._sum_gradient_kernel
_sum_gradient_kernel(self, R, dR, Y, dY) ==
    LET dao == [p \in 1..Len(R) |-> self.norm_cst[p] * (dR[p] * Y[p] + R[p] * dY[p])]
    IN  IF self.contract THEN _contract(self, dao) ELSE dao

\* AtomicOrbitals._gradient_kernel
_gradient_kernel(self, R, dR, Y, dY) ==
    LET bas == [p \in 1..Len(R) |->
                  Scale3(self.norm_cst[p] * self.bas_coeffs[p],
                         Add3(Scale3(Y[p], dR[p]), Scale3(R[p], dY[p])))]
    IN  IF self.contract THEN index_add3(zeros3(self.norb), self.index_ctr, bas) ELSE bas

\* AtomicOrbitals._sum_diag_hessian_kernel
_sum_diag_hessian_kernel(self, R, dR, d2R, Y, dY, d2Y) ==
    LET d2ao == [p \in 1..Len(R) |->
                   self.norm_cst[p]
                   * (d2R[p] * Y[p]
                      + 2 * (dR[p][1] * dY[p][1] + dR[p][2] * dY[p][2] + dR[p][3] * dY[p][3])
                      + R[p] * d2Y[p])]
    IN  IF self.contract THEN _contract(self, d2ao) ELSE d2ao

\* AtomicOrbitals._diag_hessian_kernel
_diag_hessian_kernel(self, R, dR, d2R, Y, dY, d2Y) ==
    LET bas == [p \in 1..Len(R) |->
                  Scale3(self.norm_cst[p] * self.bas_coeffs[p],
                         [k \in 1..3 |-> d2R[p][k] * Y[p] + 2 * (dR[p][k] * dY[p][k])
                                         + R[p] * d2Y[p][k]])]
    IN  IF self.contract THEN index_add3(zeros3(self.norb), self.index_ctr, bas) ELSE bas

\* the index pairs [[0,1],[0,2],[1,2]] and [[1,0],[2,0],[2,1]] of
\* _off_diag_hessian_kernel, 1-based
OffDiagA == << <<1, 2>>, <<1, 3>>, <<2, 3>> >>
OffDiagB_unswapped == << <<1, 2>>, <<1, 3>>, <<2, 3>> >>
OffDiagB == << <<2, 1>>, <<3, 1>>, <<3, 2>> >>

\* AtomicOrbitals._off_diag_hessian_kernel
_off_diag_hessian_kernel(self, R, dR, d2R, d2mR, Y, dY, d2Y, d2mY) ==
    LET bas == [p \in 1..Len(R) |->
                  Scale3(self.norm_cst[p] * self.bas_coeffs[p],
                         [j \in 1..3 |->
                             d2mR[p][j] * Y[p]
                             + (dR[p][OffDiagA[j][1]] * dY[p][OffDiagB[j][1]]
                                + dR[p][OffDiagA[j][2]] * dY[p][OffDiagB[j][2]])
                             + R[p] * d2mY[p][j]])]
    IN  IF self.contract THEN index_add3(zeros3(self.norb), self.index_ctr, bas) ELSE bas

----------------------------------------------------------------------------
(* Positions *)

\* pos.view(-1, self.nelec, 1, self.ndim): the flat data of the batch regrouped
\* in walkers of nelec electrons; torch raises when the element count is no
\* multiple of nelec * ndim
view(pos, nelec) ==
    LET flat == Flatten(pos)
        n    == nelec * ndim
    IN  IF Len(flat) % n # 0
        THEN [ok |-> FALSE, val |-> <<>>]
        ELSE [ok |-> TRUE,
              val |-> [b \in 1..(Len(flat) \div n) |->
                         [e \in 1..nelec |->
                            [k \in 1..ndim |-> flat[(b - 1) * n + (e - 1) * ndim + k]]]]]

\* the atom a primitive sits on: repeat_interleave(self.nshells, dim=2)
RECURSIVE AtomOf(_, _, _)
AtomOf(nshells, p, a) ==
    IF p <= nshells[a] THEN a ELSE AtomOf(nshells, p - nshells[a], a + 1)

\* AtomicOrbitals._elec_atom_dist and _process_position for one electron at
\* point q: the displacement from the center of every primitive
\* (r is the square root of their squared norm, which radial() receives)
_process_position(self, q) ==
    [p \in 1..self.nbas |->
        LET c == self.atom_coords[AtomOf(self.nshells, p, 1)]
        IN  <<q[1] - c[1], q[2] - c[2], q[3] - c[3]>>]

----------------------------------------------------------------------------
(* AtomicOrbitals: the _compute_* methods for one electron at point q *)

_compute_ao_values(self, q) ==
    Bind(_process_position(self, q), LAMBDA xyz :
    Bind(radial(self, xyz, <<0>>, TRUE, TRUE), LAMBDA R :
    Bind(Harmonics__call__(self.harmonics, xyz, <<0>>, TRUE, TRUE), LAMBDA Y :
        _ao_kernel(self, R, Y))))

_compute_sum_gradient_ao_values(self, q) ==
    Bind(_process_position(self, q), LAMBDA xyz :
    Bind(radial(self, xyz, <<0, 1>>, TRUE, TRUE), LAMBDA RdR :
    Bind(Harmonics__call__(self.harmonics, xyz, <<0, 1>>, TRUE, TRUE), LAMBDA YdY :
        _sum_gradient_kernel(self, RdR[1], RdR[2], YdY[1], YdY[2]))))

_compute_gradient_ao_values(self, q) ==
    Bind(_process_position(self, q), LAMBDA xyz :
    Bind(radial(self, xyz, <<0, 1>>, FALSE, TRUE), LAMBDA RdR :
    Bind(Harmonics__call__(self.harmonics, xyz, <<0, 1>>, FALSE, TRUE), LAMBDA YdY :
        _gradient_kernel(self, RdR[1], RdR[2], YdY[1], YdY[2]))))

_compute_sum_diag_hessian_ao_values(self, q) ==
    Bind(_process_position(self, q), LAMBDA xyz :
    Bind(radial(self, xyz, <<0, 1, 2>>, FALSE, TRUE), LAMBDA Rs :
    Bind(Harmonics__call__(self.harmonics, xyz, <<0, 1, 2>>, FALSE, TRUE), LAMBDA Ys :
        _sum_diag_hessian_kernel(self, Rs[1], Rs[2], Rs[3], Ys[1], Ys[2], Ys[3]))))

_compute_diag_hessian_ao_values(self, q) ==
    Bind(_process_position(self, q), LAMBDA xyz :
    Bind(radial(self, xyz, <<0, 1, 2>>, FALSE, FALSE), LAMBDA Rs :
    Bind(Harmonics__call__(self.harmonics, xyz, <<0, 1, 2>>, FALSE, FALSE), LAMBDA Ys :
        _diag_hessian_kernel(self, Rs[1], Rs[2], Rs[3], Ys[1], Ys[2], Ys[3]))))

_compute_mixed_second_derivative_ao_values(self, q) ==
    Bind(_process_position(self, q), LAMBDA xyz :
    Bind(radial(self, xyz, <<0, 1, 2, 3>>, FALSE, TRUE), LAMBDA Rs :
    Bind(Harmonics__call__(self.harmonics, xyz, <<0, 1, 2, 3>>, FALSE, TRUE), LAMBDA Ys :
        _off_diag_hessian_kernel(self, Rs[1], Rs[2], Rs[3], Rs[4],
                                 Ys[1], Ys[2], Ys[3], Ys[4]))))

_compute_all_ao_values(self, q) ==
    Bind(_process_position(self, q), LAMBDA xyz :
    Bind(radial(self, xyz, <<0, 1, 2>>, FALSE, TRUE), LAMBDA Rs :
    Bind(Harmonics__call__(self.harmonics, xyz, <<0, 1, 2>>, FALSE, TRUE), LAMBDA Ys :
        << _ao_kernel(self, Rs[1], Ys[1]),
           _gradient_kernel(self, Rs[1], Rs[2], Ys[1], Ys[2]),
           _sum_diag_hessian_kernel(self, Rs[1], Rs[2], Rs[3], Ys[1], Ys[2], Ys[3]) >>)))

----------------------------------------------------------------------------
(* AtomicOrbitals.forward *)

\* a derivative argument: a scalar d is [list |-> FALSE, v |-> <<d>>], a list l
\* is [list |-> TRUE, v |-> l]; v is the argument after
\* "if not isinstance(derivative, list): derivative = [derivative]"
Scalar(d) == [list |-> FALSE, v |-> <<d>>]
List(l) == [list |-> TRUE, v |-> l]

\* the elif chain without its closing "else: raise ValueError": every other
\* request falls into the last branch
Route_no_else(derivative, sum_grad, sum_hess) ==
    IF derivative = <<0>> THEN "_compute_ao_values"
    ELSE IF derivative = <<1>> THEN
        (IF sum_grad THEN "_compute_sum_gradient_ao_values"
                     ELSE "_compute_gradient_ao_values")
    ELSE IF derivative = <<2>> THEN
        (IF sum_hess THEN "_compute_sum_diag_hessian_ao_values"
                     ELSE "_compute_diag_hessian_ao_values")
    ELSE IF derivative = <<3>> THEN "_compute_mixed_second_derivative_ao_values"
    ELSE "_compute_all_ao_values"

\* the elif chain with the sum_hess flag left aside: derivative 2 always takes
\* the summed method
Route_sum_hess_ignored(derivative, sum_grad, sum_hess) ==
    IF derivative = <<0>> THEN "_compute_ao_values"
    ELSE IF derivative = <<1>> THEN
        (IF sum_grad THEN "_compute_sum_gradient_ao_values"
                     ELSE "_compute_gradient_ao_values")
    ELSE IF derivative = <<2>> THEN "_compute_sum_diag_hessian_ao_values"
    ELSE IF derivative = <<3>> THEN "_compute_mixed_second_derivative_ao_values"
    ELSE IF derivative = <<0, 1, 2>> THEN "_compute_all_ao_values"
    ELSE "ValueError"

\* the branch of the if/elif chain of forward that a derivative list takes, with
\* the method the branch ends in
Route(derivative, sum_grad, sum_hess) ==
    IF derivative = <<0>> THEN "_compute_ao_values"
    ELSE IF derivative = <<1>> THEN
        (IF sum_grad THEN "_compute_sum_gradient_ao_values"
                     ELSE "_compute_gradient_ao_values")
    ELSE IF derivative = <<2>> THEN
        (IF sum_hess THEN "_compute_sum_diag_hessian_ao_values"
                     ELSE "_compute_diag_hessian_ao_values")
    ELSE IF derivative = <<3>> THEN "_compute_mixed_second_derivative_ao_values"
    ELSE IF derivative = <<0, 1, 2>> THEN "_compute_all_ao_values"
    ELSE "ValueError"

\* the arguments each method hands to self.harmonics
HarmonicsArgs(route) ==
    CASE route = "_compute_ao_values" ->
            [derivative |-> <<0>>, sum_grad |-> TRUE, sum_hess |-> TRUE]
      [] route = "_compute_sum_gradient_ao_values" ->
            [derivative |-> <<0, 1>>, sum_grad |-> TRUE, sum_hess |-> TRUE]
      [] route = "_compute_gradient_ao_values" ->
            [derivative |-> <<0, 1>>, sum_grad |-> FALSE, sum_hess |-> TRUE]
      [] route = "_compute_sum_diag_hessian_ao_values" ->
            [derivative |-> <<0, 1, 2>>, sum_grad |-> FALSE, sum_hess |-> TRUE]
      [] route = "_compute_diag_hessian_ao_values" ->
            [derivative |-> <<0, 1, 2>>, sum_grad |-> FALSE, sum_hess |-> FALSE]
      [] route = "_compute_mixed_second_derivative_ao_values" ->
            [derivative |-> <<0, 1, 2, 3>>, sum_grad |-> FALSE, sum_hess |-> TRUE]
      [] OTHER ->
            [derivative |-> <<0, 1, 2>>, sum_grad |-> FALSE, sum_hess |-> TRUE]

\* the method of a route, for one electron
Compute(route, self, q) ==
    CASE route = "_compute_ao_values" -> _compute_ao_values(self, q)
      [] route = "_compute_sum_gradient_ao_values" -> _compute_sum_gradient_ao_values(self, q)
      [] route = "_compute_gradient_ao_values" -> _compute_gradient_ao_values(self, q)
      [] route = "_compute_sum_diag_hessian_ao_values" ->
            _compute_sum_diag_hessian_ao_values(self, q)
      [] route = "_compute_diag_hessian_ao_values" -> _compute_diag_hessian_ao_values(self, q)
      [] route = "_compute_mixed_second_derivative_ao_values" ->
            _compute_mixed_second_derivative_ao_values(self, q)
      [] OTHER -> _compute_all_ao_values(self, q)

\* the number of axes of the tensor a route returns
RankOf(route) ==
    IF route \in {"_compute_gradient_ao_values", "_compute_diag_hessian_ao_values",
                  "_compute_mixed_second_derivative_ao_values"} THEN 4 ELSE 3

\* (NoCall.nelec_in is the value of self.nelec when the call was entered)
\* what a call returns: kind is "tensor", "tuple" (the three tensors of
\* [0,1,2]), "None" (the call returned None) or "raised" (it returned nothing)
Raised == [kind |-> "raised", rank |-> 0, val |-> <<>>]
ReturnedNone == [kind |-> "None", rank |-> 0, val |-> <<>>]

\* the elif chain of forward and the method it ends in, run with the electron
\* count the object holds at that moment: how it ends, and what it returns
Dispatch(self, pos, derivative, sum_grad, sum_hess) ==
    Bind(view(pos, self.nelec), LAMBDA v :
    LET route == Route(derivative, sum_grad, sum_hess)
        ha    == HarmonicsArgs(route)
        hr    == HarmonicsRaises(self.harmonics, ha.derivative, ha.sum_grad, ha.sum_hess)
    IN  IF route = "ValueError" THEN [outcome |-> "ValueError", ret |-> Raised]
        ELSE IF ~v.ok THEN [outcome |-> "RuntimeError", ret |-> Raised]
        ELSE IF hr # "ok" THEN [outcome |-> hr, ret |-> Raised]
        ELSE Bind([b \in 1..Len(v.val) |->
                     [e \in 1..self.nelec |-> Compute(route, self, v.val[b][e])]],
                  LAMBDA t :
                 IF route = "_compute_all_ao_values"
                 THEN [outcome |-> "ok",
                       ret |-> [kind |-> "tuple", rank |-> 0,
                                val |-> [i \in 1..3 |->
                                           [b \in 1..Len(t) |->
                                              [e \in 1..self.nelec |-> t[b][e][i]]]]]]
                 ELSE [outcome |-> "ok",
                       ret |-> [kind |-> "tensor", rank |-> RankOf(route), val |-> t]]))

\* AtomicOrbitals.forward: how the call ends, what it returns, and the value
\* self.nelec holds when it ends
forward(self, pos, derivative, sum_grad, sum_hess, one_elec) ==
    LET d == derivative.v IN
    IF ~sum_grad /\ ~InSeq(1, d)
        THEN [outcome |-> "AssertionError", ret |-> Raised, nelec |-> self.nelec]
    ELSE IF ~sum_hess /\ ~InSeq(2, d)
        THEN [outcome |-> "AssertionError", ret |-> Raised, nelec |-> self.nelec]
    ELSE LET nelec_save == self.nelec
             self1 == IF one_elec THEN [self EXCEPT !.nelec = 1] ELSE self
         IN  Bind(Dispatch(self1, pos, d, sum_grad, sum_hess), LAMBDA r :
             IF r.outcome # "ok"
             THEN [outcome |-> r.outcome, ret |-> Raised, nelec |-> self1.nelec]
             ELSE [outcome |-> "ok", ret |-> r.ret,
                   nelec |-> IF one_elec THEN nelec_save ELSE self1.nelec])

----------------------------------------------------------------------------
(* AtomicOrbitals.update *)

\* ao.clone() kept as a second name of the tensor passed in
clone_sharing_storage(T) == [tensor |-> T, shares_storage |-> TRUE]

\* ao.clone(): a tensor of the same content with a storage of its own
clone(T) == [tensor |-> T, shares_storage |-> FALSE]

\* the rows of T that SetRow is to keep replaced by x as well
SetRow_every_row(T, idelec, x) ==
    IF T.rank = 3 /\ Len(x) = Len(T.val) /\ Len(x[1]) = Len(T.val[1][1])
    THEN [outcome |-> "ok",
          ret |-> [T EXCEPT !.val = [b \in 1..Len(T.val) |->
                                       [e \in 1..Len(T.val[1]) |-> x[b]]]]]
    ELSE [outcome |-> "RuntimeError", ret |-> Raised]

\* ao_new[:, idelec, :] = x for a tensor of 3 or 4 axes and a matrix x:
\* IndexError when the tensor has no row idelec, RuntimeError when x does not
\* broadcast to the slice, else the tensor with the slice overwritten
SetRow(T, idelec, x) ==
    LET B  == Len(T.val)
        E  == Len(T.val[1])
        O  == Len(T.val[1][1])
        Bx == Len(x)
        Ox == Len(x[1])
    IN  IF idelec + 1 > E THEN [outcome |-> "IndexError", ret |-> Raised]
        ELSE IF T.rank = 3 THEN
            IF (Ox = O \/ Ox = 1) /\ (Bx = B \/ Bx = 1)
            THEN [outcome |-> "ok",
                  ret |-> [T EXCEPT !.val =
                     [b \in 1..B |-> [e \in 1..E |->
                        IF e = idelec + 1
                        THEN [o \in 1..O |-> x[IF Bx = 1 THEN 1 ELSE b][IF Ox = 1 THEN 1 ELSE o]]
                        ELSE T.val[b][e]]]]]
            ELSE [outcome |-> "RuntimeError", ret |-> Raised]
        ELSE
            IF (Ox = 3 \/ Ox = 1) /\ (Bx = O \/ Bx = 1)
            THEN [outcome |-> "ok",
                  ret |-> [T EXCEPT !.val =
                     [b \in 1..B |-> [e \in 1..E |->
                        IF e = idelec + 1
                        THEN [o \in 1..O |->
                                [k \in 1..3 |->
                                    x[IF Bx = 1 THEN 1 ELSE o][IF Ox = 1 THEN 1 ELSE k]]]
                        ELSE T.val[b][e]]]]]
            ELSE [outcome |-> "RuntimeError", ret |-> Raised]

\* AtomicOrbitals.update(ao, pos, idelec): how the call ends, what it returns,
\* the value self.nelec holds when it ends, and what the tensor passed as ao
\* holds when it ends
update(self, T, pos, idelec) ==
    LET ids   == idelec * 3
        ide   == (idelec + 1) * 3
        slice == [b \in 1..Len(pos) |-> SubSeq(pos[b], ids + 1, ide)]
        ao_new == clone(T)
    IN  Bind(forward(self, slice, List(<<0>>), TRUE, TRUE, TRUE), LAMBDA f :
        IF f.outcome # "ok"
        THEN [outcome |-> f.outcome, ret |-> f.ret, nelec |-> f.nelec, ao |-> T]
        \* the second argument of SetRow is the forward result after squeeze(1)
        ELSE Bind(SetRow(ao_new.tensor, idelec,
                         [b \in 1..Len(f.ret.val) |-> f.ret.val[b][1]]),
                  LAMBDA w : [outcome |-> w.outcome, ret |-> w.ret, nelec |-> f.nelec,
                              ao |-> IF ao_new.shares_storage /\ w.outcome = "ok"
                                     THEN w.ret ELSE T]))

----------------------------------------------------------------------------
(* JastrowFactorElectronElectron *)

\* the two loops of get_mask_tri_up, from (i, j) on: acc holds the mask and the
\* two index lists built so far (indices are 0-based, as in the code)
RECURSIVE TriUpLoop(_, _, _, _)
TriUpLoop(nelec, i, j, acc) ==
    IF i >= nelec - 1 THEN acc
    ELSE IF j >= nelec THEN TriUpLoop(nelec, i + 1, i + 2, acc)
    ELSE TriUpLoop(nelec, i, j + 1,
                   [ mask      |-> [acc.mask EXCEPT ![i][j] = TRUE],
                     index_row |-> Append(acc.index_row, i),
                     index_col |-> Append(acc.index_col, j) ])

\* the two loops with the inner range starting at i and the outer one running
\* to nelec: the diagonal is taken as well
RECURSIVE TriUpLoopDiag(_, _, _, _)
TriUpLoopDiag(nelec, i, j, acc) ==
    IF i >= nelec THEN acc
    ELSE IF j >= nelec THEN TriUpLoopDiag(nelec, i + 1, i + 1, acc)
    ELSE TriUpLoopDiag(nelec, i, j + 1,
                       [ mask      |-> [acc.mask EXCEPT ![i][j] = TRUE],
                         index_row |-> Append(acc.index_row, i),
                         index_col |-> Append(acc.index_col, j) ])

\* get_mask_tri_up over the upper triangle with its diagonal
get_mask_tri_up_with_diagonal(nelec) ==
    LET acc == TriUpLoopDiag(nelec, 0, 0,
                   [ mask      |-> [i \in 0..(nelec - 1) |-> [j \in 0..(nelec - 1) |-> FALSE]],
                     index_row |-> <<>>,
                     index_col |-> <<>> ])
    IN  <<acc.mask, acc.index_col, acc.index_row>>

\* get_mask_tri_up with its return order swapped, as a slip in the return
\* statement would leave it: (mask, index_row, index_col)
get_mask_tri_up_swapped(nelec) ==
    LET acc == TriUpLoop(nelec, 0, 1,
                   [ mask      |-> [i \in 0..(nelec - 1) |-> [j \in 0..(nelec - 1) |-> FALSE]],
                     index_row |-> <<>>,
                     index_col |-> <<>> ])
    IN  <<acc.mask, acc.index_row, acc.index_col>>

\* JastrowFactorElectronElectron.get_mask_tri_up: (mask, index_col, index_row)
get_mask_tri_up(nelec) ==
    LET acc == TriUpLoop(nelec, 0, 1,
                   [ mask      |-> [i \in 0..(nelec - 1) |-> [j \in 0..(nelec - 1) |-> FALSE]],
                     index_row |-> <<>>,
                     index_col |-> <<>> ])
    IN  <<acc.mask, acc.index_col, acc.index_row>>

\* JastrowFactorElectronElectron.__init__ (the fields the pair bookkeeping uses)
Jastrow__init__(m) ==
    LET n == m.nup + m.ndown
        t == get_mask_tri_up(n)
    IN  [ nup |-> m.nup, ndown |-> m.ndown, nelec |-> n, ndim |-> ndim,
          mask_tri_up |-> t[1], index_col |-> t[2], index_row |-> t[3] ]

\* Tensor.masked_select(mask) on one n x n matrix: the entries under a true
\* mask entry, in row-major order, from flat index f on
RECURSIVE masked_select(_, _, _, _)
masked_select(M, mask, n, f) ==
    IF f >= n * n THEN <<>>
    ELSE LET i == f \div n
             j == f % n
         IN  (IF mask[i][j] THEN <<M[i][j]>> ELSE <<>>) \o masked_select(M, mask, n, f + 1)

\* extract_tri_up returning every entry of the matrices, the mask left aside
extract_tri_up_unmasked(self, inp) ==
    [b \in 1..Len(inp) |->
        masked_select(inp[b], [i \in 0..(self.nelec - 1) |->
                                  [j \in 0..(self.nelec - 1) |-> TRUE]], self.nelec, 0)]

\* JastrowFactorElectronElectron.extract_tri_up on a batch of matrices
extract_tri_up(self, inp) ==
    [b \in 1..Len(inp) |-> masked_select(inp[b], self.mask_tri_up, self.nelec, 0)]

----------------------------------------------------------------------------
(* The pair distance engine and the Jastrow kernel (electron_electron_       *)
(* distance.py and the kernel classes are not part of the sources at hand).  *)
(* Their contract: a symmetric distance matrix with a zero diagonal, its     *)
(* first derivative antisymmetric in the two electrons, its second           *)
(* derivative symmetric; a kernel of the pair distance, with its derivatives *)
(* by the chain rule.  Distances and kernel profiles are integer codes.      *)

\* the coordinates of electron i (0-based) of one walker
ElecPos(row, i) == <<row[3 * i + 1], row[3 * i + 2], row[3 * i + 3]>>

Diff3(u, v) == <<u[1] - v[1], u[2] - v[2], u[3] - v[3]>>

\* self.edist(pos) for one walker: the code of the distance of every pair
edist(self, row) ==
    [i \in 0..(self.nelec - 1) |->
        [j \in 0..(self.nelec - 1) |-> Dot3(Diff3(ElecPos(row, i), ElecPos(row, j)))]]

\* self.edist(pos, derivative=1) for one walker, component d
edist_derivative(self, row, d) ==
    [i \in 0..(self.nelec - 1) |->
        [j \in 0..(self.nelec - 1) |-> Diff3(ElecPos(row, i), ElecPos(row, j))[d]]]

\* self.edist(pos, derivative=2) for one walker, component d
edist_second_derivative(self, row, d) ==
    [i \in 0..(self.nelec - 1) |->
        [j \in 0..(self.nelec - 1) |->
            LET u == Diff3(ElecPos(row, i), ElecPos(row, j))
            IN  Dot3(u) - u[d] * u[d]]]

\* the kernel and its derivatives with respect to the distance, as codes
KernelProfile(ord, r) == 1 + ((r + ord) % 3)

\* self.jastrow_kernel(r) on the unique distances: (Nbatch, Npairs)
jastrow_kernel(r) ==
    [b \in 1..Len(r) |-> [k \in 1..Len(r[b]) |-> KernelProfile(0, r[b][k])]]

\* self.jastrow_kernel.compute_derivative(r, dr): (Nbatch, 3, Npairs)
compute_derivative(r, dr) ==
    [b \in 1..Len(r) |->
        [d \in 1..3 |->
            [k \in 1..Len(r[b]) |-> KernelProfile(1, r[b][k]) * dr[b][d][k]]]]

\* self.jastrow_kernel.compute_second_derivative(r, dr, d2r): (Nbatch, 3, Npairs)
compute_second_derivative(r, dr, d2r) ==
    [b \in 1..Len(r) |->
        [d \in 1..3 |->
            [k \in 1..Len(r[b]) |->
                KernelProfile(2, r[b][k]) * dr[b][d][k] * dr[b][d][k]
                + KernelProfile(1, r[b][k]) * d2r[b][d][k]]]]

\* torch.exp, with base 2 standing for e
exp(x) == 2 ^ x

----------------------------------------------------------------------------
(* JastrowFactorElectronElectron: values and derivatives *)

\* JastrowFactorElectronElectron.get_edist_unique: (Nbatch, Npairs) for
\* derivative 0, (Nbatch, 3, Npairs) for derivative 1 and 2
get_edist_unique(self, pos, derivative) ==
    IF derivative = 0
    THEN extract_tri_up(self, [b \in 1..Len(pos) |-> edist(self, pos[b])])
    ELSE IF derivative = 1
    THEN [b \in 1..Len(pos) |->
            extract_tri_up(self, [d \in 1..3 |-> edist_derivative(self, pos[b], d)])]
    ELSE [b \in 1..Len(pos) |->
            extract_tri_up(self, [d \in 1..3 |-> edist_second_derivative(self, pos[b], d)])]

Neg(v) == [k \in 1..Len(v) |-> 0 - v[k]]

\* jastrow_factor_derivative without its second scatter-add
jastrow_factor_derivative_row_only(self, r, dr, jast, sum_grad) ==
    Bind(compute_derivative(r, dr), LAMBDA kd :
    IF sum_grad
    THEN [b \in 1..Len(r) |->
            LET djast == [k \in 1..Len(r[b]) |->
                             (kd[b][1][k] + kd[b][2][k] + kd[b][3][k]) * jast[b][1]]
            IN  index_add(zeros(self.nelec), self.index_row, djast)]
    ELSE [b \in 1..Len(r) |->
            [d \in 1..3 |->
                LET djast == [k \in 1..Len(r[b]) |-> kd[b][d][k] * jast[b][1]]
                IN  index_add(zeros(self.nelec), self.index_row, djast)]])

\* jastrow_factor_derivative with its second scatter-add left unsigned
jastrow_factor_derivative_unsigned(self, r, dr, jast, sum_grad) ==
    Bind(compute_derivative(r, dr), LAMBDA kd :
    IF sum_grad
    THEN [b \in 1..Len(r) |->
            LET djast == [k \in 1..Len(r[b]) |->
                             (kd[b][1][k] + kd[b][2][k] + kd[b][3][k]) * jast[b][1]]
            IN  index_add(index_add(zeros(self.nelec), self.index_row, djast),
                          self.index_col, djast)]
    ELSE [b \in 1..Len(r) |->
            [d \in 1..3 |->
                LET djast == [k \in 1..Len(r[b]) |-> kd[b][d][k] * jast[b][1]]
                IN  index_add(index_add(zeros(self.nelec), self.index_row, djast),
                              self.index_col, djast)]])

\* JastrowFactorElectronElectron.jastrow_factor_derivative: (Nbatch, Nelec)
\* when summed, (Nbatch, 3, Nelec) when not
jastrow_factor_derivative(self, r, dr, jast, sum_grad) ==
    Bind(compute_derivative(r, dr), LAMBDA kd :
    IF sum_grad
    THEN [b \in 1..Len(r) |->
            LET djast == [k \in 1..Len(r[b]) |->
                             (kd[b][1][k] + kd[b][2][k] + kd[b][3][k]) * jast[b][1]]
            IN  index_add(index_add(zeros(self.nelec), self.index_row, djast),
                          self.index_col, Neg(djast))]
    ELSE [b \in 1..Len(r) |->
            [d \in 1..3 |->
                LET djast == [k \in 1..Len(r[b]) |-> kd[b][d][k] * jast[b][1]]
                IN  index_add(index_add(zeros(self.nelec), self.index_row, djast),
                              self.index_col, Neg(djast))]])

\* partial_derivative with the squares summed over the electron axis
partial_derivative_electron_axis(self, djast) ==
    [b \in 1..Len(djast) |->
        LET out == [d \in 1..3 |->
                      index_add(index_add(zeros(self.nelec), self.index_row, djast[b][d]),
                                self.index_col, Neg(djast[b][d]))]
        IN  [e \in 1..self.nelec |->
                SeqSum([d \in 1..3 |-> SeqSum([f \in 1..self.nelec |->
                                                  out[d][f] * out[d][f]])])]]

\* JastrowFactorElectronElectron.partial_derivative: (out ** 2).sum(-2) of the
\* signed scatter-add, (Nbatch, Nelec)
partial_derivative(self, djast) ==
    [b \in 1..Len(djast) |->
        LET out == [d \in 1..3 |->
                      index_add(index_add(zeros(self.nelec), self.index_row, djast[b][d]),
                                self.index_col, Neg(djast[b][d]))]
        IN  [e \in 1..self.nelec |->
                out[1][e] * out[1][e] + out[2][e] * out[2][e] + out[3][e] * out[3][e]]]

\* jastrow_factor_second_derivative with its result summed over the electrons
jastrow_factor_second_derivative_summed(self, r, dr, d2r, jast) ==
    Bind(compute_second_derivative(r, dr, d2r), LAMBDA k2 :
    Bind(partial_derivative(self, compute_derivative(r, dr)), LAMBDA pd :
    [b \in 1..Len(r) |->
        LET d2jast == [k \in 1..Len(r[b]) |-> k2[b][1][k] + k2[b][2][k] + k2[b][3][k]]
            hess_jast == index_add(index_add(zeros(self.nelec), self.index_row, d2jast),
                                   self.index_col, d2jast)
        IN  << SeqSum([e \in 1..self.nelec |-> (hess_jast[e] + pd[b][e]) * jast[b][1]]) >>]))

\* JastrowFactorElectronElectron.jastrow_factor_second_derivative: (Nbatch, Nelec)
jastrow_factor_second_derivative(self, r, dr, d2r, jast) ==
    Bind(compute_second_derivative(r, dr, d2r), LAMBDA k2 :
    Bind(partial_derivative(self, compute_derivative(r, dr)), LAMBDA pd :
    [b \in 1..Len(r) |->
        LET d2jast == [k \in 1..Len(r[b]) |-> k2[b][1][k] + k2[b][2][k] + k2[b][3][k]]
            hess_jast == index_add(index_add(zeros(self.nelec), self.index_row, d2jast),
                                   self.index_col, d2jast)
        IN  [e \in 1..self.nelec |-> (hess_jast[e] + pd[b][e]) * jast[b][1]]]))

\* JastrowFactorElectronElectron.forward: how the call ends and what it returns
jastrow_forward(self, pos, derivative, sum_grad) ==
    IF Len(pos[1]) # self.nelec * self.ndim
        THEN [outcome |-> "AssertionError", ret |-> Raised]
    ELSE
    Bind(get_edist_unique(self, pos, 0), LAMBDA r :
    Bind(get_edist_unique(self, pos, 1), LAMBDA dr :
    Bind(get_edist_unique(self, pos, 2), LAMBDA d2r :
    Bind(jastrow_kernel(r), LAMBDA kern_vals :
    Bind([b \in 1..Len(r) |-> << exp(SeqSum(kern_vals[b])) >>], LAMBDA jast :
    IF ~derivative.list /\ derivative.v = <<0>>
        THEN [outcome |-> "ok", ret |-> [kind |-> "tensor", rank |-> 2, val |-> jast]]
    ELSE IF ~derivative.list /\ derivative.v = <<1>>
        THEN [outcome |-> "ok",
              ret |-> [kind |-> "tensor", rank |-> IF sum_grad THEN 2 ELSE 3,
                       val |-> jastrow_factor_derivative(self, r, dr, jast, sum_grad)]]
    ELSE IF ~derivative.list /\ derivative.v = <<2>>
        THEN [outcome |-> "ok",
              ret |-> [kind |-> "tensor", rank |-> 2,
                       val |-> jastrow_factor_second_derivative(self, r, dr, d2r, jast)]]
    ELSE IF derivative.list /\ derivative.v = <<0, 1, 2>>
        THEN [outcome |-> "ok",
              ret |-> [kind |-> "tuple", rank |-> 0,
                       val |-> << jast,
                                  jastrow_factor_derivative(self, r, dr, jast, sum_grad),
                                  jastrow_factor_second_derivative(self, r, dr, d2r, jast) >>]]
    ELSE [outcome |-> "ok", ret |-> ReturnedNone])))))

----------------------------------------------------------------------------
(* Inputs of the calls *)

\* derivative lists of more or fewer than one element
ListSamples == { <<>>, <<0, 1>>, <<1, 2>>, <<0, 1, 2>>, <<2, 1, 0>>, <<0, 1, 2, 3>> }

\* the derivative arguments tried: every scalar and one-element list of
\* 0..MaxDeriv, and the list samples
Requests ==
    { Scalar(d) : d \in 0..MaxDeriv } \cup { List(<<d>>) : d \in 0..MaxDeriv }
    \cup { List(l) : l \in ListSamples }

\* the point that fills the batches drawn for their shape
FillPoint(b) == IF b % 2 = 1 THEN <<0, 0, 1>> ELSE <<1, 2, 0>>

\* position batches of one walker: every choice of a sample point per electron
PosValue(nelec) == { << Flatten(pts) >> : pts \in [1..nelec -> Points] }

\* position batches of every shape (rows, 3 * j)
PosShape == { [b \in 1..rows |-> Flatten([e \in 1..j |-> FillPoint(b)])] :
                 rows \in 1..MaxBatch, j \in 1..(MaxElec + 1) }

PosSamples(nelec) == PosValue(nelec) \cup PosShape

\* the batches handed to the Jastrow factor: those above, and one walker with
\* every choice among three points per electron
JastrowPoints == Points \cup { <<2, 1, 1>> }
JastrowPosSamples(nelec) ==
    PosSamples(nelec) \cup { << Flatten(pts) >> : pts \in [1..nelec -> JastrowPoints] }

\* pos with the coordinates of electron idelec replaced, in row b, by qs[b]
NewPos(pos, idelec, qs) ==
    [b \in 1..Len(pos) |->
        [c \in 1..Len(pos[b]) |->
            IF c > idelec * 3 /\ c <= (idelec + 1) * 3 THEN qs[b][c - idelec * 3]
            ELSE pos[b][c]]]

\* square matrices handed to extract_tri_up (n * i + j has no two equal
\* entries; i + j and i * j + 3 are symmetric)
MatrixSamples(n) ==
    { [i \in 0..(n - 1) |-> [j \in 0..(n - 1) |-> a * i + b * j]] :
         a \in {1, n}, b \in {0, 1} }
    \cup { [i \in 0..(n - 1) |-> [j \in 0..(n - 1) |-> i * j + 3]] }

----------------------------------------------------------------------------
(* CalculatorADF.get_basis_data: the basis record read from the KF file of   *)
(* an ADF run.  The file holds the basis functions once per atom type; the   *)
(* record holds them once per atom.                                          *)

\* atom types, basis functions per atom type and atoms per atom type of the
\* sample files: 1..MaxAtomTypes, 1..MaxTypeShells, 1..MaxTypeAtoms
MaxAtomTypes == 2
MaxTypeShells == 2
MaxTypeAtoms == 2

\* the pointer array of the counts n: 1, 1 + n[1], 1 + n[1] + n[2], ...
RECURSIVE Pointers(_, _)
Pointers(n, i) ==
    IF i = 0 THEN <<1>>
    ELSE LET prev == Pointers(n, i - 1) IN Append(prev, prev[i] + n[i])

\* what kf.read returns for an array: the number itself when the array has one
\* entry, else the list of the entries
KFArray(a) == IF Len(a) = 1 THEN [scalar |-> TRUE, val |-> a[1]]
              ELSE [scalar |-> FALSE, val |-> a]

\* the KF file of a run with shells[i] basis functions on atom type i and
\* atoms[i] atoms of that type; entry j of the per-function arrays is a number
\* that names the array and j
MakeKF(shells, atoms) ==
    LET ntypes == Len(shells)
        nbos   == SeqSum(shells)
    IN  [ naos     |-> SeqSum([i \in 1..ntypes |-> shells[i] * atoms[i]]),
          nbptr    |-> Pointers(shells, ntypes),
          nqptr    |-> Pointers(atoms, ntypes),
          atomtype |-> [i \in 1..ntypes |-> i],
          kx    |-> KFArray([j \in 1..nbos |-> j % 2]),
          ky    |-> KFArray([j \in 1..nbos |-> (j + 1) % 2]),
          kz    |-> KFArray([j \in 1..nbos |-> j % 3]),
          kr    |-> KFArray([j \in 1..nbos |-> j - 1]),
          alf   |-> KFArray([j \in 1..nbos |-> 10 + j]),
          bnorm |-> KFArray([j \in 1..nbos |-> 20 + j]) ]

KFSamples ==
    UNION { { MakeKF(shells, atoms) :
                 shells \in [1..ntypes -> 1..MaxTypeShells],
                 atoms \in [1..ntypes -> 1..MaxTypeAtoms] } :
            ntypes \in 1..MaxAtomTypes }

\* CalculatorADF.read_array: np.array(kf.read(...)), a number made an array of
\* one entry
read_array(data) == IF data.scalar THEN <<data.val>> ELSE data.val

\* list * number_copy read as the list itself
Repeat_once(list, number_copy) == list

\* list * number_copy: the entries of the list, number_copy times over
Repeat(list, number_copy) ==
    [i \in 1..(Len(list) * number_copy) |-> list[((i - 1) % Len(list)) + 1]]

\* np.arange(nao)
arange(nao) == [i \in 1..nao |-> i - 1]

\* the loop "for iat, _ in enumerate(atom_type)" from iat (0-based) on; acc
\* holds the lists built so far
RECURSIVE BasisLoop(_, _, _, _)
BasisLoop(kf, arrays, iat, acc) ==
    IF iat >= Len(kf.atomtype) THEN acc
    ELSE LET number_copy == kf.nqptr[iat + 2] - kf.nqptr[iat + 1]
             \* idx_bos = range(nbptr[iat] - 1, nbptr[iat + 1] - 1), 0-based
             first == kf.nbptr[iat + 1]
             last  == kf.nbptr[iat + 2] - 1
             nshells == [i \in 1..(Len(kf.nbptr) - 1) |-> kf.nbptr[i + 1] - kf.nbptr[i]]
             pick(a) == Repeat(SubSeq(a, first, last), number_copy)
         IN  BasisLoop(kf, arrays, iat + 1,
                [ nshells  |-> acc.nshells \o Repeat(<<nshells[iat + 1]>>, number_copy),
                  bas_kx   |-> acc.bas_kx \o pick(arrays.kx),
                  bas_ky   |-> acc.bas_ky \o pick(arrays.ky),
                  bas_kz   |-> acc.bas_kz \o pick(arrays.kz),
                  bas_kr   |-> acc.bas_kr \o pick(arrays.kr),
                  bas_exp  |-> acc.bas_exp \o pick(arrays.alf),
                  bas_norm |-> acc.bas_norm \o pick(arrays.bnorm) ])

\* CalculatorADF.get_basis_data, the part that builds the basis arrays
get_basis_data(kf) ==
    LET arrays == [ kx |-> read_array(kf.kx), ky |-> read_array(kf.ky),
                    kz |-> read_array(kf.kz), kr |-> read_array(kf.kr),
                    alf |-> read_array(kf.alf), bnorm |-> read_array(kf.bnorm) ]
        empty  == [ nshells |-> <<>>, bas_kx |-> <<>>, bas_ky |-> <<>>, bas_kz |-> <<>>,
                    bas_kr |-> <<>>, bas_exp |-> <<>>, bas_norm |-> <<>> ]
        lists  == BasisLoop(kf, arrays, 0, empty)
    IN  [ radial_type    |-> "sto",
          harmonics_type |-> "cart",
          nao            |-> kf.naos,
          nshells        |-> lists.nshells,
          nao_per_atom   |-> lists.nshells,
          index_ctr      |-> arange(kf.naos),
          nctr_per_ao    |-> [i \in 1..kf.naos |-> 1],
          bas_kx         |-> lists.bas_kx,
          bas_ky         |-> lists.bas_ky,
          bas_kz         |-> lists.bas_kz,
          bas_kr         |-> lists.bas_kr,
          bas_exp        |-> lists.bas_exp,
          bas_coeffs     |-> [i \in 1..Len(lists.bas_exp) |-> 1],
          bas_norm       |-> lists.bas_norm ]

----------------------------------------------------------------------------
(* The state machine *)

\* the record of the last call: its arguments (inp is the tensor or matrix
\* passed in, as it was when the call began), how it ended, what it returned
\* and, for update, what the tensor passed in holds when the call ends (prev)
NoCall ==
    [ op |-> "none", pos |-> <<>>, derivative |-> List(<<>>), sum_grad |-> TRUE,
      sum_hess |-> TRUE, one_elec |-> FALSE, idelec |-> 0, inp |-> <<>>,
      nelec_in |-> 0,
      outcome |-> "none", ret |-> Raised, prev |-> Raised ]

\* a thread that has no forward call in progress: pc is the place of the
\* thread in forward, nelec_save its local of that name, n_view and n_ctr the
\* values of self.nelec it read in _elec_atom_dist and in _contract (0: not read)
IdleThread ==
    [ pc |-> "idle", one_elec |-> FALSE, pos |-> <<>>, nelec_save |-> 0,
      n_view |-> 0, n_ctr |-> 0, outcome |-> "none", ret |-> Raised ]

Threads == {1, 2}

NoThreads == [t \in Threads |-> IdleThread]

\* no InterpolateMolecularOrbitals object
NoInterp == [built |-> FALSE]

Init ==
    /\ mol \in MolSamples
    /\ ao = AtomicOrbitals__init__(mol)
    /\ harm = Harmonics__init__(mol.basis.harmonics_type, HarmonicsKwargs)
    /\ jastrow = Jastrow__init__(mol)
    /\ call = NoCall
    /\ threads = NoThreads
    /\ interp = NoInterp

\* ao.forward(pos, derivative, sum_grad, sum_hess, one_elec)
Forward ==
    /\ call.op = "none"
    /\ ao.built = "ok"
    /\ \E pos \in PosSamples(mol.nelec), derivative \in Requests,
          sum_grad \in BOOLEAN, sum_hess \in BOOLEAN, one_elec \in BOOLEAN :
          \E r \in { forward(ao, pos, derivative, sum_grad, sum_hess, one_elec) } :
          /\ ao' = [ao EXCEPT !.nelec = r.nelec]
          /\ call' = [NoCall EXCEPT !.op = "forward", !.pos = pos,
                         !.derivative = derivative, !.sum_grad = sum_grad,
                         !.sum_hess = sum_hess, !.one_elec = one_elec,
                         !.nelec_in = ao.nelec, !.outcome = r.outcome, !.ret = r.ret]
    /\ UNCHANGED <<mol, harm, jastrow, threads, interp>>

\* ao.update(T, pos', idelec) on the tensor T that forward just returned for the
\* batch pos, with pos' = pos but for the coordinates of electron idelec
Update ==
    /\ ao.built = "ok"
    /\ call.op = "forward"
    /\ call.outcome = "ok"
    /\ call.ret.kind = "tensor"
    /\ ~call.one_elec
    /\ Len(call.pos[1]) = mol.nelec * ndim
    /\ \E idelec \in 0..(mol.nelec - 1), qs \in [1..Len(call.pos) -> Points] :
          \E pos \in { NewPos(call.pos, idelec, qs) } :
          \E r \in { update(ao, call.ret, pos, idelec) } :
              /\ ao' = [ao EXCEPT !.nelec = r.nelec]
              /\ call' = [NoCall EXCEPT !.op = "update", !.pos = pos,
                             !.derivative = call.derivative, !.sum_grad = call.sum_grad,
                             !.sum_hess = call.sum_hess, !.idelec = idelec,
                             !.nelec_in = ao.nelec,
                             !.outcome = r.outcome, !.ret = r.ret, !.inp = call.ret,
                             !.prev = r.ao]
    /\ UNCHANGED <<mol, harm, jastrow, threads, interp>>

\* the coordinates handed to the standalone object: the point q for the
\* primitives of odd position and q with its coordinates rotated for the others
HarmonicsXyz(q) ==
    [p \in 1..Len(HarmonicsKwargs.bas_l) |->
        IF p % 2 = 1 THEN q ELSE <<q[3], q[1], q[2]>>]

\* harm(xyz, derivative, sum_grad, sum_hess) on the standalone Harmonics object
HarmonicsCall ==
    /\ call.op = "none"
    /\ \E q \in Points, d \in ({ <<o>> : o \in 0..MaxDeriv } \cup ListSamples),
          sum_grad \in BOOLEAN, sum_hess \in BOOLEAN :
          LET xyz == HarmonicsXyz(q)
              hr  == HarmonicsRaises(harm, d, sum_grad, sum_hess)
          IN  call' = [NoCall EXCEPT !.op = "harmonics", !.pos = xyz,
                          !.derivative = List(d), !.sum_grad = sum_grad,
                          !.sum_hess = sum_hess, !.outcome = hr,
                          !.ret = IF hr = "ok"
                                  THEN [kind |-> "tensor", rank |-> 0,
                                        val |-> Harmonics__call__(harm, xyz, d,
                                                                  sum_grad, sum_hess)]
                                  ELSE Raised]
    /\ UNCHANGED <<mol, ao, harm, jastrow, threads, interp>>

\* atomic_orbital_norm(mol.basis)
NormCall ==
    /\ call.op = "none"
    /\ LET n == atomic_orbital_norm(mol.basis) IN
       call' = [NoCall EXCEPT !.op = "atomic_orbital_norm",
                   !.outcome = IF n.kind = "ValueError" THEN "ValueError" ELSE "ok",
                   !.ret = IF n.kind = "tensor"
                           THEN [kind |-> "tensor", rank |-> 1, val |-> n.val]
                           ELSE IF n.kind = "None" THEN ReturnedNone ELSE Raised]
    /\ UNCHANGED <<mol, ao, harm, jastrow, threads, interp>>

\* jastrow.forward(pos, derivative, sum_grad)
JastrowForward ==
    /\ call.op = "none"
    /\ \E pos \in JastrowPosSamples(mol.nelec), derivative \in Requests,
          sum_grad \in BOOLEAN :
          \E r \in { jastrow_forward(jastrow, pos, derivative, sum_grad) } :
          call' = [NoCall EXCEPT !.op = "jastrow_forward", !.pos = pos,
                      !.derivative = derivative, !.sum_grad = sum_grad,
                      !.outcome = r.outcome, !.ret = r.ret]
    /\ UNCHANGED <<mol, ao, harm, jastrow, threads, interp>>

\* jastrow.extract_tri_up(inp)
ExtractTriUp ==
    /\ call.op = "none"
    /\ \E M1 \in MatrixSamples(jastrow.nelec), M2 \in MatrixSamples(jastrow.nelec),
          nbatch \in 1..MaxBatch :
          LET inp == [b \in 1..nbatch |-> IF b = 1 THEN M1 ELSE M2] IN
          call' = [NoCall EXCEPT !.op = "extract_tri_up", !.inp = inp, !.outcome = "ok",
                      !.ret = [kind |-> "tensor", rank |-> 2,
                               val |-> extract_tri_up(jastrow, inp)]]
    /\ UNCHANGED <<mol, ao, harm, jastrow, threads, interp>>

\* the caller drops the result of the last call and goes on to the next one
Discard ==
    /\ call.op # "none"
    /\ call' = NoCall
    /\ UNCHANGED <<mol, ao, harm, jastrow, threads, interp>>

\* CalculatorADF.get_basis_data on the KF file of a finished run
GetBasisData ==
    /\ call.op = "none"
    /\ \E kf \in KFSamples :
          call' = [NoCall EXCEPT !.op = "get_basis_data", !.inp = kf, !.outcome = "ok",
                      !.ret = [kind |-> "basis", rank |-> 0, val |-> get_basis_data(kf)]]
    /\ UNCHANGED <<mol, ao, harm, jastrow, threads, interp>>

Next ==
    \/ Forward
    \/ Update
    \/ HarmonicsCall
    \/ NormCall
    \/ JastrowForward
    \/ ExtractTriUp
    \/ GetBasisData
    \/ Discard

Spec == Init /\ [][Next]_vars

----------------------------------------------------------------------------
(* The properties *)

\* the call in the call record is an ao.forward on a batch of the documented
\* shape (Nbatch, nelec * 3)
IsForward == call.op = "forward"
WellShaped == Len(call.pos[1]) = mol.nelec * ndim

\* the derivative requests the documentation lists for a harmonics type, the
\* flags it does not mention left at their defaults
Listed(ht, derivative, sum_grad, sum_hess) ==
    \/ derivative.v = <<0>> /\ sum_grad /\ sum_hess
    \/ derivative.v = <<1>> /\ sum_hess
    \/ derivative.v = <<2>> /\ sum_grad /\ sum_hess
    \/ derivative.v = <<2>> /\ sum_grad /\ ~sum_hess /\ ht = "cart"
    \/ derivative.v = <<3>> /\ sum_grad /\ sum_hess
    \/ derivative = List(<<0, 1, 2>>) /\ sum_grad /\ sum_hess

\* C1: with cartesian as with spherical harmonics, forward returns a result and
\* raises nothing for derivative 0, 1 (summed or per component), 2 (summed), 3
\* and [0, 1, 2], and for the per-component derivative 2 with cartesian harmonics
C1_EveryListedModeReturns ==
    (IsForward /\ ~call.one_elec /\ WellShaped
       /\ Listed(ao.harmonics_type, call.derivative, call.sum_grad, call.sum_hess))
    => (call.outcome = "ok" /\ call.ret.kind \in {"tensor", "tuple"})

\* C2: update(T, pos', idelec) returns what forward(pos') returns for the
\* derivative order T was computed with, whatever that order
C2_UpdateEqualsForward ==
    call.op = "update"
    => /\ call.outcome = "ok"
       /\ call.ret = forward(ao, call.pos, call.derivative, call.sum_grad,
                             call.sum_hess, FALSE).ret

\* C3: self.nelec holds the value it was constructed with after every sequence
\* of forward and update calls, those that raise with one_elec = True included
C3_NelecPreserved ==
    ao.built = "ok" => ao.nelec = mol.nelec

\* the electron count forward ran with
NelecOfCall == IF call.one_elec THEN 1 ELSE call.nelec_in

\* the object with unit normalisation and unit coefficients and no contraction:
\* its kernels return the bare term of every primitive
UnitAO(self) ==
    [self EXCEPT !.contract = FALSE,
                 !.norm_cst = [p \in 1..self.nbas |-> 1],
                 !.bas_coeffs = [p \in 1..self.nbas |-> 1]]

\* the sum over the primitives p' >= p mapped to orbital o (0-based) of
\* norm_cst * bas_coeffs * term; term[p'] is a number
RECURSIVE ContractedSum(_, _, _, _)
ContractedSum(self, term, o, p) ==
    IF p > self.nbas THEN 0
    ELSE (IF self.index_ctr[p] = o
          THEN self.norm_cst[p] * self.bas_coeffs[p] * term[p] ELSE 0)
         + ContractedSum(self, term, o, p + 1)

\* what the contraction invariant prescribes for a tensor of per-primitive
\* terms of one electron, of 3 axes (numbers) or 4 axes (3-vectors)
Prescribed(self, term, rank) ==
    IF rank = 3
    THEN [o \in 1..self.norb |-> ContractedSum(self, term, o - 1, 1)]
    ELSE [o \in 1..self.norb |->
            [k \in 1..3 |->
                ContractedSum(self, [p \in 1..self.nbas |-> term[p][k]], o - 1, 1)]]

\* C4: in every mode, contracted or not, entry o of the output is the sum over
\* the primitives p with index_ctr[p] = o of norm_cst[p] * bas_coeffs[p] * term_p
C4_ContractionInvariant ==
    (IsForward /\ call.outcome = "ok")
    => LET route == Route(call.derivative.v, call.sum_grad, call.sum_hess)
           v     == view(call.pos, NelecOfCall).val
       IN  \A b \in 1..Len(v) : \A e \in 1..NelecOfCall :
           \A term \in { Compute(route, UnitAO(ao), v[b][e]) } :
              IF call.ret.kind = "tuple"
              THEN /\ call.ret.val[1][b][e] = Prescribed(ao, term[1], 3)
                   /\ call.ret.val[2][b][e] = Prescribed(ao, term[2], 4)
                   /\ call.ret.val[3][b][e] = Prescribed(ao, term[3], 3)
              ELSE call.ret.val[b][e] = Prescribed(ao, term, call.ret.rank)

\* index_ctr is the identity map: primitive p is orbital p
IdentityCtr(self) == \A p \in 1..Len(self.index_ctr) : self.index_ctr[p] = p - 1

\* C5: with an identity index_ctr the scatter-add path returns what the
\* non-contracted path returns, in every mode and for every bas_coeffs
C5_IdentityContractionIsNoOp ==
    (IsForward /\ call.outcome = "ok" /\ IdentityCtr(ao))
    => call.ret = forward([ao EXCEPT !.contract = TRUE, !.nelec = call.nelec_in],
                          call.pos, call.derivative, call.sum_grad, call.sum_hess,
                          call.one_elec).ret

\* the derivative arguments forward has a branch for
Recognized(derivative) ==
    derivative.v \in { <<0>>, <<1>>, <<2>>, <<3>>, <<0, 1, 2>> }

\* C6: forward raises for every derivative request other than 0, 1, 2, 3 (as a
\* scalar or a one-element list) and [0, 1, 2], and for derivative 2 with
\* sum_hess = False under spherical harmonics
C6_UnsupportedRequestRaises ==
    (IsForward
       /\ \/ ~Recognized(call.derivative)
          \/ (call.derivative.v = <<2>> /\ ~call.sum_hess /\ ao.harmonics_type = "sph"))
    => (call.outcome \notin {"ok", "none"} /\ call.ret = Raised)

\* an order forward has no branch for was asked of it, on a batch of the
\* documented shape and with the default flags, and forward raised ValueError
C6_Witness ==
    /\ IsForward /\ WellShaped /\ call.sum_grad /\ call.sum_hess /\ ~call.one_elec
    /\ call.derivative = Scalar(MaxDeriv)
    /\ call.outcome = "ValueError"

\* C7: the Jastrow forward raises for every derivative outside
\* {0, 1, 2, [0, 1, 2]} and never returns None
C7_JastrowRejectsUnknownDerivative ==
    call.op = "jastrow_forward"
    => /\ call.ret.kind # "None"
       /\ (call.derivative \notin {Scalar(0), Scalar(1), Scalar(2), List(<<0, 1, 2>>)}
             => call.outcome # "ok")

\* C8: an unrecognized harmonics type or radial type is rejected when the
\* object is constructed, by Harmonics.__init__, by AtomicOrbitals.__init__ and
\* by atomic_orbital_norm
C8_UnknownTypeRejectedAtConstruction ==
    /\ mol.basis.harmonics_type \notin {"cart", "sph"}
         => (harm.built # "ok" /\ ao.built # "ok")
    /\ mol.basis.radial_type \notin radial_dict => ao.built # "ok"
    /\ (call.op = "atomic_orbital_norm"
          /\ \/ mol.basis.harmonics_type \notin {"cart", "sph"}
             \/ (~StartsWithSto(mol.basis.radial_type) /\ ~StartsWithGto(mol.basis.radial_type)))
         => call.outcome # "ok"

\* C9: the orbital forward (one_elec = False) and the Jastrow forward raise for
\* every pos whose second dimension is not nelec * 3, also when the number of
\* elements of pos is a multiple of nelec * 3
C9_WrongWidthRaises ==
    /\ (IsForward /\ ~call.one_elec /\ Len(call.pos[1]) # call.nelec_in * ndim)
         => call.outcome # "ok"
    /\ (call.op = "jastrow_forward" /\ Len(call.pos[1]) # jastrow.nelec * ndim)
         => call.outcome # "ok"

\* C10: get_mask_tri_up yields the N(N-1)/2 pairs (row, col) with row < col,
\* none twice, in row-major order, and element k of extract_tri_up(M) is
\* M[index_row[k], index_col[k]]
C10_TriUpPairs ==
    LET N    == jastrow.nelec
        row  == jastrow.index_row
        col  == jastrow.index_col
        npair == (N * (N - 1)) \div 2
    IN  /\ Len(row) = npair /\ Len(col) = npair
        /\ \A k \in 1..npair : 0 <= row[k] /\ row[k] < col[k] /\ col[k] < N
        /\ \A k \in 1..npair : \A j \in 1..npair :
              k < j => (row[k] < row[j] \/ (row[k] = row[j] /\ col[k] < col[j]))
        /\ \A i \in 0..(N - 1) : \A j \in 0..(N - 1) :
              jastrow.mask_tri_up[i][j] <=> (i < j)
        /\ call.op = "extract_tri_up"
             => \A b \in 1..Len(call.inp) :
                   /\ Len(call.ret.val[b]) = npair
                   /\ \A k \in 1..npair : call.ret.val[b][k] = call.inp[b][row[k]][col[k]]

\* the upper triangle of the 3 x 3 matrix M[i][j] = 3 i + j was extracted
C10_Witness ==
    /\ call.op = "extract_tri_up"
    /\ jastrow.nelec = 3
    /\ call.inp[1] = [i \in 0..2 |-> [j \in 0..2 |-> 3 * i + j]]
    /\ call.ret.val[1] = <<1, 2, 5>>

----------------------------------------------------------------------------
(* The Jastrow factor recomputed pair by pair from the electron positions *)

\* the last call was a Jastrow forward that returned the gradient
ReturnsJastrowGradient ==
    /\ call.op = "jastrow_forward" /\ call.outcome = "ok"
    /\ call.derivative \in {Scalar(1), List(<<0, 1, 2>>)}

JastrowGradient == IF call.ret.kind = "tuple" THEN call.ret.val[2] ELSE call.ret.val

PairDistance(row, i, j) == Dot3(Diff3(ElecPos(row, i), ElecPos(row, j)))

\* the kernel derivative of the pair (i, j), i the row member, along axis d
PairKernelDerivative(row, i, j, d) ==
    KernelProfile(1, PairDistance(row, i, j)) * Diff3(ElecPos(row, i), ElecPos(row, j))[d]

\* the pairs containing electron i: +1 where i is the row member, -1 where it
\* is the column member
SignedPairSum(row, N, i, d) ==
    SeqSum([j1 \in 1..N |->
              IF j1 - 1 > i THEN PairKernelDerivative(row, i, j1 - 1, d)
              ELSE IF j1 - 1 < i THEN 0 - PairKernelDerivative(row, j1 - 1, i, d)
              ELSE 0])

\* the kernel values of the unordered pairs, each taken once
PairKernelSum(row, N) ==
    SeqSum([i1 \in 1..N |->
              SeqSum([j1 \in 1..N |->
                        IF i1 < j1 THEN KernelProfile(0, PairDistance(row, i1 - 1, j1 - 1))
                        ELSE 0])])

\* C11: the Jastrow gradient with respect to electron i is J times the signed
\* sum of the kernel derivatives of the pairs containing i (+1 as row member,
\* -1 as column member), summed over the axes when sum_grad and per axis
\* otherwise
C11_GradientIsSignedPairSum ==
    ReturnsJastrowGradient =>
        \A b \in 1..Len(call.pos) : \A i \in 0..(jastrow.nelec - 1) :
            LET row == call.pos[b]
                N   == jastrow.nelec
                J   == exp(PairKernelSum(row, N))
            IN  IF call.sum_grad
                THEN JastrowGradient[b][i + 1]
                       = J * (SignedPairSum(row, N, i, 1) + SignedPairSum(row, N, i, 2)
                              + SignedPairSum(row, N, i, 3))
                ELSE \A d \in 1..3 :
                       JastrowGradient[b][d][i + 1] = J * SignedPairSum(row, N, i, d)

\* a per-axis gradient of three or more electrons in which an electron that is
\* the column member of one pair and the row member of another has a nonzero
\* component
C11_Witness ==
    /\ ReturnsJastrowGradient /\ ~call.sum_grad /\ jastrow.nelec >= 3
    /\ call.derivative = Scalar(1)
    /\ \E d \in 1..3 : call.ret.val[1][d][2] # 0
    /\ \E d \in 1..3 : call.ret.val[1][d][1] # 0 - call.ret.val[1][d][2]

\* C12: the two members of a pair receive opposite contributions: with two
\* electrons the gradient of electron 0 is minus that of electron 1, and for
\* any number of electrons the gradient summed over the electrons is zero for
\* every batch element and every axis
C12_GradientAntisymmetric ==
    ReturnsJastrowGradient =>
        \A b \in 1..Len(call.pos) :
            IF call.sum_grad
            THEN /\ SeqSum(JastrowGradient[b]) = 0
                 /\ jastrow.nelec = 2
                      => JastrowGradient[b][1] = 0 - JastrowGradient[b][2]
            ELSE \A d \in 1..3 :
                 /\ SeqSum(JastrowGradient[b][d]) = 0
                 /\ jastrow.nelec = 2
                      => JastrowGradient[b][d][1] = 0 - JastrowGradient[b][d][2]

\* a two-electron gradient, asked for together with the value and the
\* Laplacian, whose sole pair gives electron 0 a nonzero component
C12_Witness ==
    /\ ReturnsJastrowGradient /\ jastrow.nelec = 2 /\ ~call.sum_grad
    /\ call.derivative = List(<<0, 1, 2>>)
    /\ \E d \in 1..3 : /\ call.ret.val[2][1][d][1] # 0
                       /\ call.ret.val[2][1][d][2] = 0 - call.ret.val[2][1][d][1]

----------------------------------------------------------------------------
(* Scattering the pair values back into a matrix *)

IsSymmetric(M, N) ==
    \A i \in 0..(N - 1) : \A j \in 0..(N - 1) : M[i][j] = M[j][i]

\* +v[k] written at (row[k], col[k]) and -v[k] at (col[k], row[k]), pair after
\* pair, into the matrix A
RECURSIVE ScatterSigned(_, _, _, _)
ScatterSigned(A, row, col, v) ==
    IF v = <<>> \/ row = <<>> THEN A
    ELSE LET A1 == [A EXCEPT ![row[1]][col[1]] = v[1]]
             A2 == [A1 EXCEPT ![col[1]][row[1]] = 0 - v[1]]
         IN  ScatterSigned(A2, Tail(row), Tail(col), Tail(v))

ZeroMatrix(N) == [i \in 0..(N - 1) |-> [j \in 0..(N - 1) |-> 0]]

\* C13: the pair values extract_tri_up takes from a symmetric matrix, written
\* back with +v at (index_row, index_col) and -v at (index_col, index_row),
\* give an antisymmetric matrix: entry (i, j) is minus entry (j, i), the
\* diagonal is zero, and the entry above the diagonal is that of the input
C13_ScatterBackAntisymmetric ==
    call.op = "extract_tri_up" =>
        \A b \in 1..Len(call.inp) :
            IsSymmetric(call.inp[b], jastrow.nelec) =>
                \A A \in { ScatterSigned(ZeroMatrix(jastrow.nelec), jastrow.index_row,
                                         jastrow.index_col, call.ret.val[b]) } :
                    \A i \in 0..(jastrow.nelec - 1) : \A j \in 0..(jastrow.nelec - 1) :
                        /\ A[i][j] = 0 - A[j][i]
                        /\ i = j => A[i][j] = 0
                        /\ i < j => A[i][j] = call.inp[b][i][j]

\* extract_tri_up on a symmetric matrix of MaxElec electrons whose pairs have
\* three different values
C13_Witness ==
    /\ call.op = "extract_tri_up" /\ jastrow.nelec >= 3
    /\ IsSymmetric(call.inp[1], jastrow.nelec)
    /\ call.inp[1][1][1] # 0
    /\ Cardinality({ call.ret.val[1][k] : k \in 1..Len(call.ret.val[1]) }) >= 3

\* the last call was a Jastrow forward that returned the value
ReturnsJastrowValue ==
    /\ call.op = "jastrow_forward" /\ call.outcome = "ok"
    /\ call.derivative \in {Scalar(0), List(<<0, 1, 2>>)}

JastrowValue == IF call.ret.kind = "tuple" THEN call.ret.val[1] ELSE call.ret.val

\* C14: J is the exponential of the sum of the kernel values of the unordered
\* electron pairs, each pair counted once; with two electrons
\* J = exp(kernel(r_01))
C14_ValueIsExpOfPairSum ==
    ReturnsJastrowValue =>
        \A b \in 1..Len(call.pos) :
            /\ JastrowValue[b] = << exp(PairKernelSum(call.pos[b], jastrow.nelec)) >>
            /\ jastrow.nelec = 2
                 => JastrowValue[b]
                      = << exp(KernelProfile(0, PairDistance(call.pos[b], 0, 1))) >>

\* the value of MaxElec electrons whose three or more pairs do not all have
\* the same kernel value
C14_Witness ==
    /\ ReturnsJastrowValue /\ call.derivative = Scalar(0) /\ jastrow.nelec >= 3
    /\ KernelProfile(0, PairDistance(call.pos[1], 0, 1))
         # KernelProfile(0, PairDistance(call.pos[1], 1, 2))
    /\ call.ret.val[1][1] > exp(3)

\* the last call was a Jastrow forward that returned the Laplacian
ReturnsJastrowLaplacian ==
    /\ call.op = "jastrow_forward" /\ call.outcome = "ok"
    /\ call.derivative \in {Scalar(2), List(<<0, 1, 2>>)}

JastrowLaplacian == IF call.ret.kind = "tuple" THEN call.ret.val[3] ELSE call.ret.val

\* the kernel second derivative of the pair (i, j) along axis d
PairKernelSecondDerivative(row, i, j, d) ==
    LET u == Diff3(ElecPos(row, i), ElecPos(row, j))
    IN  KernelProfile(2, Dot3(u)) * u[d] * u[d]
        + KernelProfile(1, Dot3(u)) * (Dot3(u) - u[d] * u[d])

\* the second derivatives of the pairs containing electron i, row or column
\* member alike, over the three axes
DirectPairSum(row, N, i) ==
    SeqSum([j1 \in 1..N |->
              IF j1 - 1 > i
              THEN SeqSum([d \in 1..3 |-> PairKernelSecondDerivative(row, i, j1 - 1, d)])
              ELSE IF j1 - 1 < i
              THEN SeqSum([d \in 1..3 |-> PairKernelSecondDerivative(row, j1 - 1, i, d)])
              ELSE 0])

\* the cross term of electron i with the squares summed over the axes
CrossTermOverAxes(row, N, i) ==
    SeqSum([d \in 1..3 |-> SignedPairSum(row, N, i, d) * SignedPairSum(row, N, i, d)])

\* the cross term of electron i with the squares summed over the pairs
CrossTermOverPairs(row, N, i) ==
    SeqSum([j1 \in 1..N |->
              IF j1 - 1 = i THEN 0
              ELSE SeqSum([d \in 1..3 |->
                      LET t == IF j1 - 1 > i THEN PairKernelDerivative(row, i, j1 - 1, d)
                               ELSE 0 - PairKernelDerivative(row, j1 - 1, i, d)
                      IN  t * t])])

\* C15 as amended: the Laplacian is J times the sum of the scatter-add of the
\* kernel second derivative over the row and column index arrays and of a
\* cross term, the signed (+row, -column) scatter-add of the kernel first
\* derivative, squared and summed over the spatial-dimension axis
C15_LaplacianCrossTermOverAxes ==
    ReturnsJastrowLaplacian =>
        \A b \in 1..Len(call.pos) : \A i \in 0..(jastrow.nelec - 1) :
            JastrowLaplacian[b][i + 1]
              = exp(PairKernelSum(call.pos[b], jastrow.nelec))
                * (DirectPairSum(call.pos[b], jastrow.nelec, i)
                   + CrossTermOverAxes(call.pos[b], jastrow.nelec, i))

\* C15 as stated: the squares of the cross term are summed over the
\* electron-pair axis
C15_LaplacianCrossTermOverPairs ==
    ReturnsJastrowLaplacian =>
        \A b \in 1..Len(call.pos) : \A i \in 0..(jastrow.nelec - 1) :
            JastrowLaplacian[b][i + 1]
              = exp(PairKernelSum(call.pos[b], jastrow.nelec))
                * (DirectPairSum(call.pos[b], jastrow.nelec, i)
                   + CrossTermOverPairs(call.pos[b], jastrow.nelec, i))

\* a Laplacian of three or more electrons in which the two readings of the
\* cross term differ for the electron that belongs to a pair on either side
C15_Witness ==
    /\ ReturnsJastrowLaplacian /\ call.derivative = Scalar(2) /\ jastrow.nelec >= 3
    /\ CrossTermOverAxes(call.pos[1], jastrow.nelec, 1)
         # CrossTermOverPairs(call.pos[1], jastrow.nelec, 1)
    /\ call.ret.val[1][2] # 0

----------------------------------------------------------------------------
(* Shapes of the returned tensors *)

\* the tensor v of rank axes has the given shape: as many axes as the shape
\* has entries, and nested sequences of these lengths
RECURSIVE HasShape(_, _, _)
HasShape(v, rank, shape) ==
    /\ rank = Len(shape)
    /\ rank > 0 => /\ Len(v) = shape[1]
                   /\ \A k \in 1..Len(v) : HasShape(v[k], rank - 1, Tail(shape))

\* the Jastrow forward returned a single tensor
JastrowReturnsTensor ==
    call.op = "jastrow_forward" /\ call.outcome = "ok" /\ call.ret.kind = "tensor"

\* C16 as amended: the Jastrow forward returns (batch, 1) for the value,
\* (batch, electron) for the Laplacian and for the summed gradient, and
\* (batch, 3, electron) for the gradient per axis
C16_JastrowShapes ==
    JastrowReturnsTensor =>
        LET batch == Len(call.pos) IN
        /\ call.derivative = Scalar(0) => HasShape(call.ret.val, call.ret.rank, <<batch, 1>>)
        /\ call.derivative = Scalar(2) => HasShape(call.ret.val, call.ret.rank, <<batch, jastrow.nelec>>)
        /\ (call.derivative = Scalar(1) /\ call.sum_grad)
             => HasShape(call.ret.val, call.ret.rank, <<batch, jastrow.nelec>>)
        /\ (call.derivative = Scalar(1) /\ ~call.sum_grad)
             => HasShape(call.ret.val, call.ret.rank, <<batch, 3, jastrow.nelec>>)

\* C16 as stated: the Laplacian has the shape of the value, (batch, 1)
C16_LaplacianShapeOfValue ==
    JastrowReturnsTensor =>
        LET batch == Len(call.pos) IN
        /\ call.derivative \in {Scalar(0), Scalar(2)} => HasShape(call.ret.val, call.ret.rank, <<batch, 1>>)
        /\ (call.derivative = Scalar(1) /\ call.sum_grad)
             => HasShape(call.ret.val, call.ret.rank, <<batch, jastrow.nelec>>)
        /\ (call.derivative = Scalar(1) /\ ~call.sum_grad)
             => HasShape(call.ret.val, call.ret.rank, <<batch, 3, jastrow.nelec>>)

\* a Laplacian of a batch of MaxBatch walkers of two or more electrons: one
\* entry per electron
C16_Witness ==
    /\ JastrowReturnsTensor /\ call.derivative = Scalar(2)
    /\ Len(call.pos) = MaxBatch /\ jastrow.nelec >= 2
    /\ Len(call.ret.val[MaxBatch]) = jastrow.nelec

\* the last call was an ao.forward that returned
ForwardReturned == IsForward /\ call.outcome = "ok"

\* the batch size forward's pos.view(-1, nelec, 1, 3) finds
BatchOfCall == Len(Flatten(call.pos)) \div (NelecOfCall * ndim)

\* the request has an unsummed mode that its order can fulfil, or is the
\* order 3, whose three mixed terms are never summed
AppendsAxis ==
    \/ call.derivative.v = <<1>> /\ ~call.sum_grad
    \/ call.derivative.v = <<2>> /\ ~call.sum_hess
    \/ call.derivative.v = <<3>>

----------------------------------------------------------------------------
(* The harmonics engine against the closed forms *)

\* the last call was a call of the harmonics object that returned
HarmonicsReturned == call.op = "harmonics" /\ call.outcome = "ok"

\* the output of the i-th requested order: the harmonics return the bare
\* tensor for a single order and a list otherwise
HarmonicsOutput(i) ==
    IF Len(call.derivative.v) = 1 THEN call.ret.val ELSE call.ret.val[i]

\* x to the power n for n >= 0, with x^0 = 1
RECURSIVE Pow(_, _)
Pow(x, n) == IF n = 0 THEN 1 ELSE x * Pow(x, n - 1)

\* the factors of the other two axes
OtherFactors(q, k, a) ==
    IF a = 1 THEN Pow(q[2], k[2]) * Pow(q[3], k[3])
    ELSE IF a = 2 THEN Pow(q[1], k[1]) * Pow(q[3], k[3])
    ELSE Pow(q[1], k[1]) * Pow(q[2], k[2])

\* d/da of x^kx y^ky z^kz: zero for k = 0, else k a^(k-1) times the others
CartFirst(q, k, a) ==
    IF k[a] = 0 THEN 0 ELSE k[a] * Pow(q[a], k[a] - 1) * OtherFactors(q, k, a)

\* d2/da2 of x^kx y^ky z^kz: zero for k in {0, 1}, else k (k-1) a^(k-2) times
\* the others
CartSecond(q, k, a) ==
    IF k[a] <= 1 THEN 0
    ELSE k[a] * (k[a] - 1) * Pow(q[a], k[a] - 2) * OtherFactors(q, k, a)

\* C18: for cartesian harmonics the first derivative along an axis is
\* k a^(k-1) times the other two factors and the diagonal second derivative
\* k (k-1) a^(k-2) times the other two factors; no exponent handed to the
\* power function is negative, the first derivative is exactly zero for k = 0
\* and the second for k in {0, 1}, also where the coordinate is 0
C18_CartesianDerivatives ==
    (HarmonicsReturned /\ harm.type = "cart") =>
        \A i \in 1..Len(call.derivative.v) : \A p \in 1..Len(harm.bas_k) :
            LET q == call.pos[p]
                k == harm.bas_k[p]
                y == HarmonicsOutput(i)[p]
            IN  /\ \A a \in 1..3 : ClampSub(k, 1)[a] >= 0 /\ ClampSub(k, 2)[a] >= 0
                /\ call.derivative.v[i] = 1 =>
                     IF call.sum_grad
                     THEN y = CartFirst(q, k, 1) + CartFirst(q, k, 2) + CartFirst(q, k, 3)
                     ELSE /\ y = <<CartFirst(q, k, 1), CartFirst(q, k, 2), CartFirst(q, k, 3)>>
                          /\ \A a \in 1..3 : k[a] = 0 => y[a] = 0
                /\ call.derivative.v[i] = 2 =>
                     IF call.sum_hess
                     THEN y = CartSecond(q, k, 1) + CartSecond(q, k, 2) + CartSecond(q, k, 3)
                     ELSE /\ y = <<CartSecond(q, k, 1), CartSecond(q, k, 2),
                                   CartSecond(q, k, 3)>>
                          /\ \A a \in 1..3 : k[a] \in {0, 1} => y[a] = 0

\* the second derivatives per axis of a primitive with exponents 0, 1 and 2,
\* at a point whose z is 0: zero along x and y, and 2 x^0 y^1 z^0 along z
C18_Witness ==
    /\ HarmonicsReturned /\ harm.type = "cart"
    /\ call.derivative.v = <<2>> /\ ~call.sum_hess
    /\ \E p \in 1..Len(harm.bas_k) :
          /\ call.pos[p][3] = 0
          /\ harm.bas_k[p] = <<0, 1, 2>>
          /\ call.ret.val[p] = <<0, 0, 2 * call.pos[p][2]>>
          /\ call.ret.val[p][3] # 0

\* the mixed second partials of x^kx y^ky z^kz, in the order (xy, xz, yz)
CartMixed(q, k) ==
    << (IF k[1] = 0 \/ k[2] = 0 THEN 0
        ELSE k[1] * k[2] * Pow(q[1], k[1] - 1) * Pow(q[2], k[2] - 1) * Pow(q[3], k[3])),
       (IF k[1] = 0 \/ k[3] = 0 THEN 0
        ELSE k[1] * k[3] * Pow(q[1], k[1] - 1) * Pow(q[2], k[2]) * Pow(q[3], k[3] - 1)),
       (IF k[2] = 0 \/ k[3] = 0 THEN 0
        ELSE k[2] * k[3] * Pow(q[1], k[1]) * Pow(q[2], k[2] - 1) * Pow(q[3], k[3] - 1)) >>

\* the last call asked the harmonics object for the order 3 alone, the flags
\* at their defaults, and returned
ReturnedMixedSecond ==
    /\ HarmonicsReturned /\ call.derivative.v = <<3>> /\ call.sum_grad /\ call.sum_hess
    /\ harm.type \in {"cart", "sph"}

\* C19: for 'cart' and for 'sph' the order 3 returns, for every primitive, the
\* three mixed second partials in the order (xy, xz, yz): a tensor with an
\* axis of three components, which for 'cart' hold the closed forms and for an
\* l = 0 primitive of 'sph', a constant, three zeros
C19_MixedSecondReturnsThreePartials ==
    ReturnedMixedSecond =>
        /\ HarmonicsOutputAxes(harm, 3, call.sum_grad, call.sum_hess) = 1
        /\ \A p \in 1..Len(call.pos) :
              /\ Len(call.ret.val[p]) = 3
              /\ harm.type = "cart" => call.ret.val[p] = CartMixed(call.pos[p], harm.bas_k[p])
              /\ (harm.type = "sph" /\ harm.bas_l[p] = 0) => call.ret.val[p] = <<0, 0, 0>>

\* the cartesian half of C19 is met: a primitive with exponents (0, 1, 2) has
\* the mixed partials (0, 0, 2 z) at a point with z different from 0
C19_CartesianMixedReached ==
    /\ ReturnedMixedSecond /\ harm.type = "cart"
    /\ \E p \in 1..Len(harm.bas_k) :
          /\ harm.bas_k[p] = <<0, 1, 2>> /\ call.pos[p][3] # 0
          /\ call.ret.val[p] = <<0, 0, 2 * call.pos[p][3]>>

\* the spherical order 3 returned one number per primitive, every one of
\* them zero, the l = 1 and l = 2 primitives included
C19_SphericalMixedAllZero ==
    /\ ReturnedMixedSecond /\ harm.type = "sph"
    /\ HarmonicsOutputAxes(harm, 3, call.sum_grad, call.sum_hess) = 0
    /\ \A p \in 1..Len(call.pos) : call.ret.val[p] = 0
    /\ \E p \in 1..Len(call.pos) : harm.bas_l[p] = 2

\* the last call was a call of the spherical object that returned
SphericalReturned == HarmonicsReturned /\ harm.type = "sph"

\* the closed form of the primitive's own (l, m) for an order in 0..2
OwnClosedForm(l, m, ord, q) ==
    IF l = 0 THEN (IF ord = 0 THEN c_l0 ELSE 0) ELSE SphClosedForm(l, m, ord, q)

\* the closed form of the gradient of the primitive's own (l, m)
OwnGradClosedForm(l, m, q) ==
    IF l = 0 THEN <<0, 0, 0>> ELSE SphGradClosedForm(l, m, q)

\* the coordinate of the l = 1 harmonics: y for m = -1, z for m = 0, x for m = 1
CoordinateOfM(q, m) == IF m = -1 THEN q[2] ELSE IF m = 0 THEN q[3] ELSE q[1]

\* the number of writes the slot p receives for the order ord
WritesOf(ord, p) ==
    get_spherical_harmonics_run(call.pos, harm.bas_l, harm.bas_m, ord).n[p]

\* every slot holds the closed form of its own (l, m), and the l = 1 value is
\* built on the coordinate of its m
SlotsHoldOwnClosedForm ==
    IF call.sum_grad
    THEN \A i \in 1..Len(call.derivative.v) : \A p \in 1..Len(call.pos) :
            LET ord == call.derivative.v[i]
                l   == harm.bas_l[p]
                m   == harm.bas_m[p]
            IN  ord \in {0, 1, 2} =>
                  /\ HarmonicsOutput(i)[p] = OwnClosedForm(l, m, ord, call.pos[p])
                  /\ (l = 1 /\ ord = 0) =>
                        HarmonicsOutput(i)[p]
                          = c_l1 * CoordinateOfM(call.pos[p], m) * rinv(call.pos[p], 1)
    ELSE \A p \in 1..Len(call.pos) :
            call.ret.val[p]
              = OwnGradClosedForm(harm.bas_l[p], harm.bas_m[p], call.pos[p])

\* C20 as amended: for every primitive with l in {0, 1, 2} and |m| <= l the
\* slot holds the closed form of the primitive's own (l, m), for l = 1 on the
\* coordinate y, z, x for m = -1, 0, 1; get_grad_spherical_harmonics writes
\* every slot exactly once, and get_spherical_harmonics writes every slot
\* exactly once for the orders 0 and 1 and every slot of l >= 1 exactly once
\* for the order 2, where it leaves the l = 0 slots unwritten at their zero
C20_SlotsWrittenOnceButL0Laplacian ==
    SphericalReturned =>
        /\ SlotsHoldOwnClosedForm
        /\ call.sum_grad =>
              \A i \in 1..Len(call.derivative.v) : \A p \in 1..Len(call.pos) :
                 call.derivative.v[i] \in {0, 1, 2} =>
                    WritesOf(call.derivative.v[i], p)
                      = IF harm.bas_l[p] = 0 /\ call.derivative.v[i] = 2 THEN 0 ELSE 1
        /\ ~call.sum_grad =>
              \A p \in 1..Len(call.pos) :
                 get_grad_spherical_harmonics_run(call.pos, harm.bas_l, harm.bas_m).n[p] = 1

\* C20 as stated: every slot is written exactly once for the orders 0, 1 and
\* 2 and by get_grad_spherical_harmonics, with the closed form of its own (l, m)
C20_EverySlotWrittenOnce ==
    SphericalReturned =>
        /\ SlotsHoldOwnClosedForm
        /\ call.sum_grad =>
              \A i \in 1..Len(call.derivative.v) : \A p \in 1..Len(call.pos) :
                 call.derivative.v[i] \in {0, 1, 2} => WritesOf(call.derivative.v[i], p) = 1
        /\ ~call.sum_grad =>
              \A p \in 1..Len(call.pos) :
                 get_grad_spherical_harmonics_run(call.pos, harm.bas_l, harm.bas_m).n[p] = 1

\* the three orders asked for together: two l = 1 slots of m = -1 and m = 0
\* hold different nonzero values, both (1, 0) slots are written, and the l = 0
\* slot is left unwritten for the order 2
C20_Witness ==
    /\ SphericalReturned /\ call.sum_grad /\ call.derivative.v = <<0, 1, 2>>
    /\ \E p \in 1..Len(call.pos) : \E p2 \in 1..Len(call.pos) :
          /\ harm.bas_l[p] = 1 /\ harm.bas_m[p] = -1
          /\ harm.bas_l[p2] = 1 /\ harm.bas_m[p2] = 0
          /\ call.ret.val[1][p] # 0 /\ call.ret.val[1][p2] # 0
          /\ call.ret.val[1][p] # call.ret.val[1][p2]
    /\ \E p \in 1..Len(call.pos) :
          harm.bas_l[p] = 0 /\ WritesOf(2, p) = 0 /\ call.ret.val[3][p] = 0
    /\ \A p \in 1..Len(call.pos) :
          (harm.bas_l[p] = 1 /\ harm.bas_m[p] = 0) => WritesOf(0, p) = 1

\* the multiplicative constant the closed forms of (l, m) are to carry
ConstantOf(l, m) ==
    IF l = 0 THEN c_l0
    ELSE IF l = 1 THEN c_l1
    ELSE IF m = 0 THEN c0_l2
    ELSE IF m = 2 THEN c2_l2
    ELSE cm_l2

\* v is the constant c times a whole number of the field
CarriesConstant(v, c) == v % c = 0

\* C21: for each (l, m) with l <= 2 the value, the summed gradient, the
\* per-dimension gradient and the Laplacian returned for a primitive are its
\* own constant (0.2821 for l = 0, 0.4886 for l = 1, 0.3154 for (2, 0), 0.5463
\* for (2, 2), 1.0925 for (2, -2), (2, -1), (2, 1)) times the rest of the
\* closed form
C21_ClosedFormsCarryOwnConstant ==
    SphericalReturned =>
        IF call.sum_grad
        THEN \A i \in 1..Len(call.derivative.v) : \A p \in 1..Len(call.pos) :
                call.derivative.v[i] \in {0, 1, 2} =>
                   CarriesConstant(HarmonicsOutput(i)[p],
                                   ConstantOf(harm.bas_l[p], harm.bas_m[p]))
        ELSE \A p \in 1..Len(call.pos) : \A k \in 1..ndim :
                CarriesConstant(call.ret.val[p][k],
                                ConstantOf(harm.bas_l[p], harm.bas_m[p]))

\* the value, the summed gradient and the Laplacian alone carry the constant
\* of their (l, m), nonzero slots of every l = 2 primitive included
C21_SummedFormsCarryOwnConstant ==
    (SphericalReturned /\ call.sum_grad) =>
        \A i \in 1..Len(call.derivative.v) : \A p \in 1..Len(call.pos) :
           call.derivative.v[i] \in {0, 1, 2} =>
              CarriesConstant(HarmonicsOutput(i)[p],
                              ConstantOf(harm.bas_l[p], harm.bas_m[p]))

\* a per-dimension gradient of an l = 2 primitive with m = -2, -1 or 1 that is
\* not zero and is a multiple of the constant of (2, 0)
C21_GradientOfL2CarriesC0 ==
    /\ SphericalReturned /\ ~call.sum_grad
    /\ \E p \in 1..Len(call.pos) : \E k \in 1..ndim :
          /\ harm.bas_l[p] = 2 /\ harm.bas_m[p] \in {-2, -1, 1}
          /\ call.ret.val[p][k] # 0
          /\ CarriesConstant(call.ret.val[p][k], c0_l2)
          /\ ~CarriesConstant(call.ret.val[p][k], cm_l2)

\* index_ctr is a one-to-one relabeling of the primitives onto the orbitals
\* 0..norb-1: every orbital is the image of exactly one primitive
IsRelabeling(index_ctr, norb) ==
    /\ Len(index_ctr) = norb
    /\ \A o \in 0..(norb - 1) :
          Cardinality({ p \in 1..Len(index_ctr) : index_ctr[p] = o }) = 1

C22_IdentityReached ==
    /\ ~ao.contract /\ Len(ao.index_ctr) = 2 /\ IsRelabeling(ao.index_ctr, ao.norb)
    /\ call.op = "forward" /\ call.outcome = "ok"

\* the last call was an update that returned a tensor
UpdateReturned == call.op = "update" /\ call.outcome = "ok"

\* C23: update changes only the row of the moved electron: every row j other
\* than idelec of the tensor returned equals row j of the tensor passed in,
\* for every batch element and orbital
C23_UpdateKeepsOtherRows ==
    UpdateReturned =>
        /\ Len(call.ret.val) = Len(call.inp.val)
        /\ \A b \in 1..Len(call.ret.val) :
              /\ Len(call.ret.val[b]) = Len(call.inp.val[b])
              /\ \A j \in 1..Len(call.ret.val[b]) :
                    j # call.idelec + 1 => call.ret.val[b][j] = call.inp.val[b][j]

\* an update of a tensor of several electrons that changed the row of the
\* moved electron and left a row that differs from the new one
C23_Witness ==
    /\ UpdateReturned
    /\ \E b \in 1..Len(call.ret.val) : \E j \in 1..Len(call.ret.val[b]) :
          /\ j # call.idelec + 1
          /\ call.ret.val[b][call.idelec + 1] # call.inp.val[b][call.idelec + 1]
          /\ call.ret.val[b][j] # call.ret.val[b][call.idelec + 1]
          /\ call.ret.val[b][j] = call.inp.val[b][j]

\* the row update computes for the moved electron: forward on its three
\* coordinates with one_elec = True, after squeeze(1)
RecomputedRow ==
    LET slice == [b \in 1..Len(call.pos) |->
                    SubSeq(call.pos[b], call.idelec * 3 + 1, (call.idelec + 1) * 3)]
        f     == forward([ao EXCEPT !.nelec = call.nelec_in], slice,
                         List(<<0>>), TRUE, TRUE, TRUE)
    IN  [b \in 1..Len(f.ret.val) |-> f.ret.val[b][1]]

\* the tensor T of three axes holds the recomputed row at the row idelec
HoldsRecomputedRow(T) ==
    \A x \in { RecomputedRow } :
        (T.rank = 3 /\ Len(x) = Len(T.val)) =>
            \A b \in 1..Len(T.val) : T.val[b][call.idelec + 1] = x[b]

\* C24 as amended: update leaves the tensor passed as ao as it was and returns
\* a clone of it that holds the recomputed row of electron idelec
C24_UpdateReturnsCloneWithNewRow ==
    UpdateReturned => (call.prev = call.inp /\ HoldsRecomputedRow(call.ret))

\* C24 as stated: after update the tensor passed as ao holds the recomputed
\* row of electron idelec
C24_UpdateMutatesInPlace ==
    UpdateReturned => HoldsRecomputedRow(call.prev)

\* an update of a tensor of values whose recomputed row differs from the row
\* the tensor passed in held, and still holds
C24_Witness ==
    /\ UpdateReturned /\ call.derivative.v = <<0>> /\ call.ret.rank = 3
    /\ Len(RecomputedRow) = Len(call.ret.val)
    /\ \E b \in 1..Len(call.ret.val) :
          /\ call.ret.val[b][call.idelec + 1] # call.inp.val[b][call.idelec + 1]
          /\ call.prev.val[b][call.idelec + 1] = call.inp.val[b][call.idelec + 1]

\* the axis pairs (x, y), (x, z), (y, z) of the mixed second derivatives
AxisPairs == << <<1, 2>>, <<1, 3>>, <<2, 3>> >>

\* the product rule on the radial parts Rs = (R, dR, d2R, d2mR) and the
\* harmonic parts Ys = (Y, dY, d2Y, d2mY) of the primitive p
ProductRuleGradient(Rs, Ys, p) ==
    [k \in 1..3 |-> Rs[2][p][k] * Ys[1][p] + Rs[1][p] * Ys[2][p][k]]

ProductRuleLaplacian(Rs, Ys, p) ==
    Rs[3][p] * Ys[1][p]
    + 2 * (Rs[2][p][1] * Ys[2][p][1] + Rs[2][p][2] * Ys[2][p][2]
           + Rs[2][p][3] * Ys[2][p][3])
    + Rs[1][p] * Ys[3][p]

ProductRuleMixed(Rs, Ys, p) ==
    [j \in 1..3 |->
        LET a == AxisPairs[j][1]
            b == AxisPairs[j][2]
        IN  Rs[4][p][j] * Ys[1][p]
            + Rs[2][p][a] * Ys[2][p][b] + Rs[2][p][b] * Ys[2][p][a]
            + Rs[1][p] * Ys[4][p][j]]

\* the three modes the kernels of the claim serve
ProductRuleRoutes ==
    {"_compute_gradient_ao_values", "_compute_sum_diag_hessian_ao_values",
     "_compute_mixed_second_derivative_ao_values"}

\* the orders the parts are asked for: the mixed ones only in the mixed mode
PartsOrders(route) ==
    IF route = "_compute_mixed_second_derivative_ao_values"
    THEN <<0, 1, 2, 3>> ELSE <<0, 1, 2>>

\* the bare term of every primitive, for the electron at q, is the product
\* rule on its radial and harmonic parts
ProductRuleAt(route, q) ==
    \A xyz \in { _process_position(ao, q) } :
    \A Rs \in { radial(ao, xyz, PartsOrders(route), FALSE, TRUE) } :
    \A Ys \in { Harmonics__call__(ao.harmonics, xyz, PartsOrders(route), FALSE, TRUE) } :
    \A term \in { Compute(route, UnitAO(ao), q) } :
    \A p \in 1..ao.nbas :
       term[p] = CASE route = "_compute_gradient_ao_values" ->
                        ProductRuleGradient(Rs, Ys, p)
                   [] route = "_compute_sum_diag_hessian_ao_values" ->
                        ProductRuleLaplacian(Rs, Ys, p)
                   [] OTHER -> ProductRuleMixed(Rs, Ys, p)

\* C26: per primitive, gradient component k = dR_k*Y + R*dY_k, Laplacian =
\* d2R*Y + 2*sum_k(dR_k*dY_k) + R*d2Y, and the mixed second derivative of the
\* axis pairs (x,y), (x,z), (y,z) = d2mR_ab*Y + dR_a*dY_b + dR_b*dY_a + R*d2mY_ab
C26_KernelsFollowProductRule ==
    (IsForward /\ call.outcome = "ok"
       /\ Route(call.derivative.v, call.sum_grad, call.sum_hess) \in ProductRuleRoutes)
    => LET route == Route(call.derivative.v, call.sum_grad, call.sum_hess)
           v     == view(call.pos, NelecOfCall).val
       IN  \A b \in 1..Len(v) : \A e \in 1..NelecOfCall : ProductRuleAt(route, v[b][e])

\* a mixed second derivative was computed at a point where, for some primitive
\* and axis pair, dR_a*dY_b + dR_b*dY_a differs from dR_a*dY_a + dR_b*dY_b and
\* the summand d2mR_ab*Y is not zero
C26_Witness ==
    /\ IsForward /\ call.outcome = "ok" /\ WellShaped /\ ~call.one_elec
    /\ Route(call.derivative.v, call.sum_grad, call.sum_hess)
          = "_compute_mixed_second_derivative_ao_values"
    /\ \E b \in 1..Len(call.pos) :
       \E xyz \in { _process_position(ao, SubSeq(call.pos[b], 1, 3)) } :
       \E Rs \in { radial(ao, xyz, <<0, 1, 2, 3>>, FALSE, TRUE) } :
       \E Ys \in { Harmonics__call__(ao.harmonics, xyz, <<0, 1, 2, 3>>, FALSE, TRUE) } :
       \E p \in 1..ao.nbas : \E j \in 1..3 :
          LET a == AxisPairs[j][1]
              c == AxisPairs[j][2]
          IN  /\ Rs[2][p][a] * Ys[2][p][c] + Rs[2][p][c] * Ys[2][p][a]
                   # Rs[2][p][a] * Ys[2][p][a] + Rs[2][p][c] * Ys[2][p][c]
              /\ Rs[4][p][j] * Ys[1][p] # 0

----------------------------------------------------------------------------
(* Two threads in forward(pos, one_elec=...) on the same AtomicOrbitals      *)
(* object, with the default derivative [0] (the call update makes).  A step  *)
(* is one access of a thread to self.nelec: the interpreter may switch       *)
(* threads between any two of them.                                          *)

\* the batches a thread passes: one electron at a sample point when one_elec,
\* else one walker of mol.nelec electrons
ThreadPos(one_elec) ==
    IF one_elec THEN { << q >> : q \in Points } ELSE PosValue(mol.nelec)

\* thread t enters forward
Enter(t) ==
    /\ threads[t].pc = "idle"
    /\ \E one_elec \in BOOLEAN : \E pos \in ThreadPos(one_elec) :
          threads' = [threads EXCEPT ![t] =
                        [IdleThread EXCEPT !.pc = IF one_elec THEN "save" ELSE "view",
                                           !.one_elec = one_elec, !.pos = pos]]
    /\ UNCHANGED <<mol, ao, harm, jastrow, call, interp>>

\* nelec_save = self.nelec
SaveNelec(t) ==
    /\ threads[t].pc = "save"
    /\ threads' = [threads EXCEPT ![t].nelec_save = ao.nelec, ![t].pc = "set"]
    /\ UNCHANGED <<mol, ao, harm, jastrow, call, interp>>

\* self.nelec = 1
SetNelec(t) ==
    /\ threads[t].pc = "set"
    /\ ao' = [ao EXCEPT !.nelec = 1]
    /\ threads' = [threads EXCEPT ![t].pc = "view"]
    /\ UNCHANGED <<mol, harm, jastrow, call, interp>>

\* _elec_atom_dist: pos.view(-1, self.nelec, 1, self.ndim), which raises when
\* the batch does not divide in walkers of self.nelec electrons
ReadView(t) ==
    /\ threads[t].pc = "view"
    /\ threads' = [threads EXCEPT ![t] =
          IF view(threads[t].pos, ao.nelec).ok
          THEN [@ EXCEPT !.n_view = ao.nelec,
                         !.pc = IF ao.contract THEN "contract"
                                ELSE IF threads[t].one_elec THEN "restore"
                                ELSE "return"]
          ELSE [@ EXCEPT !.n_view = ao.nelec, !.pc = "done",
                         !.outcome = "RuntimeError"]]
    /\ UNCHANGED <<mol, ao, harm, jastrow, call, interp>>

\* _contract: torch.zeros(nbatch, self.nelec, self.norb) and index_add_, which
\* raises when bas has another number of electron rows
ReadContract(t) ==
    /\ threads[t].pc = "contract"
    /\ threads' = [threads EXCEPT ![t] =
          IF ao.nelec = threads[t].n_view
          THEN [@ EXCEPT !.n_ctr = ao.nelec,
                         !.pc = IF threads[t].one_elec THEN "restore" ELSE "return"]
          ELSE [@ EXCEPT !.n_ctr = ao.nelec, !.pc = "done",
                         !.outcome = "RuntimeError"]]
    /\ UNCHANGED <<mol, ao, harm, jastrow, call, interp>>

\* self.nelec = nelec_save
RestoreNelec(t) ==
    /\ threads[t].pc = "restore"
    /\ ao' = [ao EXCEPT !.nelec = threads[t].nelec_save]
    /\ threads' = [threads EXCEPT ![t].pc = "return"]
    /\ UNCHANGED <<mol, harm, jastrow, call, interp>>

\* return ao: the tensor computed with the electron count the thread read
Return(t) ==
    /\ threads[t].pc = "return"
    /\ \E r \in { forward([ao EXCEPT !.nelec = threads[t].n_view], threads[t].pos,
                          List(<<0>>), TRUE, TRUE, FALSE) } :
          threads' = [threads EXCEPT ![t].pc = "done", ![t].outcome = r.outcome,
                                     ![t].ret = r.ret]
    /\ UNCHANGED <<mol, ao, harm, jastrow, call, interp>>

InitThreads ==
    /\ mol \in MolSamples
    /\ ao = AtomicOrbitals__init__(mol)
    /\ ao.built = "ok"
    /\ harm = Harmonics__init__(mol.basis.harmonics_type, HarmonicsKwargs)
    /\ jastrow = Jastrow__init__(mol)
    /\ call = NoCall
    /\ threads = NoThreads
    /\ interp = NoInterp

NextThreads ==
    \E t \in Threads :
        \/ Enter(t)
        \/ SaveNelec(t)
        \/ SetNelec(t)
        \/ ReadView(t)
        \/ ReadContract(t)
        \/ RestoreNelec(t)
        \/ Return(t)

SpecThreads == InitThreads /\ [][NextThreads]_vars

\* C27: in no interleaving of two forward calls on the same object, one of
\* them made with one_elec = True, does the other call compute with an
\* electron count different from the one set at construction
C27_OtherCallSeesConstructedNelec ==
    \A t \in Threads : \A u \in Threads :
        (t # u /\ ~threads[t].one_elec /\ threads[u].one_elec) =>
            /\ threads[t].n_view \in {0, mol.nelec}
            /\ threads[t].n_ctr \in {0, mol.nelec}

\* forward writes no field of the engine during an evaluation
C27_ForwardWritesNoField == [][ao' = ao]_vars

\* a forward call without one_elec returned a tensor of one electron per
\* walker on an object built with two or more, while the other thread was in
\* a one_elec call
C27_ComputedWithOneElectron ==
    \E t \in Threads : \E u \in Threads :
        /\ t # u /\ ~threads[t].one_elec /\ threads[u].one_elec
        /\ threads[t].pc = "done" /\ threads[t].outcome = "ok"
        /\ threads[t].n_view = 1 /\ mol.nelec >= 2
        /\ Len(threads[t].ret.val[1]) = 1

\* both calls are over and self.nelec is not the constructed value
C27_NelecLeftWrong ==
    /\ \A t \in Threads : threads[t].pc = "done"
    /\ ao.nelec # mol.nelec

\* the last call was get_basis_data
BasisBuilt == call.op = "get_basis_data" /\ call.outcome = "ok"

----------------------------------------------------------------------------
(* InterpolateMolecularOrbitals: the object keeps the interpolation function *)
(* it builds in the attribute interp_mo_func and the index of the highest    *)
(* orbital in mo_max_index.                                                  *)

\* molecular orbitals of the wave function: 1..MaxMO
MaxMO == 3

Min(a, b) == IF a < b THEN a ELSE b

\* the wave functions handed to the constructor: nmo is wf.mol.basis.nmo and
\* configs_max is torch.stack(wf.configs).max(), the highest occupied index
WfSamples ==
    { w \in [nmo : 1..MaxMO, configs_max : 0..(MaxMO - 1)] : w.configs_max < w.nmo }

\* InterpolateMolecularOrbitals(wf): no attribute but wf is set
InterpolateMolecularOrbitals__init__(wf) ==
    [ built |-> TRUE, wf |-> wf, has_mo_max_index |-> FALSE, mo_max_index |-> 0,
      has_interp_mo_func |-> FALSE, interp_mo_func |-> [kind |-> "none", ncols |-> 0] ]

MethodSamples == {"irreg", "reg"}
OrbSamples == {"occupied", "all", "virtual"}

\* get_mo_max_index(orb): the object after the call, or ValueError
get_mo_max_index(self, orb) ==
    IF orb = "occupied"
    THEN [outcome |-> "ok",
          self |-> [self EXCEPT !.has_mo_max_index = TRUE,
                                !.mo_max_index = self.wf.configs_max + 1]]
    ELSE IF orb = "all"
    THEN [outcome |-> "ok",
          self |-> [self EXCEPT !.has_mo_max_index = TRUE,
                                !.mo_max_index = self.wf.nmo + 1]]
    ELSE [outcome |-> "ValueError", self |-> self]

\* interpolator_irreg_grid(func, grid_pts) and interpolator_reg_grid(func, x, y, z):
\* func is evaluated on the grid when the interpolator is built, so the
\* interpolator has the columns of mo[:, :self.mo_max_index] at that time
interpolator(kind, self) ==
    [kind |-> kind, ncols |-> Min(self.mo_max_index, self.wf.nmo)]

\* "if not hasattr(self, 'interp_mo_func'): ... self.interp_mo_func = ..."
build_if_missing(kind, self) ==
    IF ~self.has_interp_mo_func
    THEN [self EXCEPT !.has_interp_mo_func = TRUE,
                      !.interp_mo_func = interpolator(kind, self)]
    ELSE self

\* mos[:, :, :self.mo_max_index] = interpolate_..._grid(self.interp_mo_func, pos):
\* the slice has Min(mo_max_index, nmo) columns and the data those of the
\* interpolator; the assignment raises unless they are equal or the data has
\* one column, which is repeated
assign_mos(self) ==
    LET width == Min(self.mo_max_index, self.wf.nmo)
        ncols == self.interp_mo_func.ncols
    IN  IF ncols = width \/ ncols = 1 THEN "ok" ELSE "RuntimeError"

\* interpolate_mo_irreg_grid and interpolate_mo_reg_grid, which differ in the
\* grid and the kind of interpolator they build
interpolate_mo_grid(self, kind, orb) ==
    LET g == get_mo_max_index(self, orb)
    IN  IF g.outcome # "ok" THEN g
        ELSE LET s == build_if_missing(kind, g.self)
             IN  [outcome |-> assign_mos(s), self |-> s]

\* InterpolateMolecularOrbitals.__call__(pos, method, orb)
Interpolate__call__(self, method, orb) ==
    IF method = "irreg" THEN interpolate_mo_grid(self, "irreg", orb)
    ELSE interpolate_mo_grid(self, "reg", orb)

\* a call of the object; the call record keeps the arguments and how it ended
InterpolateCall ==
    /\ interp.built
    /\ \E method \in MethodSamples, orb \in OrbSamples :
       \E r \in { Interpolate__call__(interp, method, orb) } :
          /\ interp' = r.self
          /\ call' = [NoCall EXCEPT !.op = "interpolate", !.inp = <<method, orb>>,
                         !.outcome = r.outcome]
    /\ UNCHANGED <<mol, ao, harm, jastrow, threads>>

InitInterp ==
    /\ mol \in MolSamples
    /\ ao = AtomicOrbitals__init__(mol)
    /\ harm = Harmonics__init__(mol.basis.harmonics_type, HarmonicsKwargs)
    /\ jastrow = Jastrow__init__(mol)
    /\ call = NoCall
    /\ threads = NoThreads
    /\ interp \in { InterpolateMolecularOrbitals__init__(wf) : wf \in WfSamples }

NextInterp == InterpolateCall

SpecInterp == InitInterp /\ [][NextInterp]_vars

\* the last call was a call of the interpolation object with a method and an
\* orbital range the claim names
InterpolateCalled ==
    /\ call.op = "interpolate"
    /\ call.inp[1] \in {"irreg", "reg"} /\ call.inp[2] \in {"occupied", "all"}

\* C29: after any sequence of calls with varying method and orb, the
\* interpolation function a call used was built with that call's method and
\* orbital range: it is of the kind of the method and its number of output
\* columns equals the mo_max_index computed for that call
C29_FunctionBuiltForTheCall ==
    InterpolateCalled =>
        /\ interp.interp_mo_func.kind = call.inp[1]
        /\ interp.interp_mo_func.ncols = interp.mo_max_index

\* the same for the calls on occupied orbitals of an object that had no
\* function yet: the function is built for them
C29_FirstOccupiedCallBuildsItsFunction ==
    [][(~interp.has_interp_mo_func /\ call'.op = "interpolate"
          /\ call'.inp[2] = "occupied")
       => (/\ interp'.interp_mo_func.kind = call'.inp[1]
           /\ interp'.interp_mo_func.ncols = interp'.mo_max_index
           /\ call'.outcome = "ok")]_vars

\* a call with method 'reg' returned values of an interpolator built on the
\* irregular grid by an earlier call
C29_RegCallUsedIrregFunction ==
    /\ InterpolateCalled /\ call.outcome = "ok"
    /\ call.inp[1] = "reg" /\ interp.interp_mo_func.kind = "irreg"

\* a call on all orbitals raised: the function kept from a call on the
\* occupied ones has fewer columns than the slice it is assigned to
C29_AllCallRaisedOnKeptFunction ==
    /\ InterpolateCalled /\ call.inp[2] = "all" /\ call.outcome = "RuntimeError"
    /\ interp.interp_mo_func.ncols < Min(interp.mo_max_index, interp.wf.nmo)

----------------------------------------------------------------------------
(* The Laplacian of a spherical harmonic of degree l is -l(l+1)/r^2 times    *)
(* the harmonic.                                                             *)

\* a number of the field
InField(v) == v % FieldPrime

\* the primitive p with l in {1, 2}: the Laplacian lap and the value val the
\* call returned for it satisfy lap = -l(l+1)/r^2 * val at its point
LaplacianIsEigenvalueTimesValue(p, lap, val) ==
    LET l == harm.bas_l[p]
    IN  InField(InField(lap)
                + l * (l + 1) * rinv(call.pos[p], 2) * InField(val)) = 0

\* a call of the spherical harmonics that returned the orders of a list with
\* the value at position i and the Laplacian at position j
ReturnedValueAndLaplacian(i, j) ==
    /\ SphericalReturned /\ call.sum_grad /\ Len(call.derivative.v) > 1
    /\ i \in 1..Len(call.derivative.v) /\ j \in 1..Len(call.derivative.v)
    /\ call.derivative.v[i] = 0 /\ call.derivative.v[j] = 2

\* C30: for l in {1, 2} and every m with |m| <= l, at every point with r > 0
\* the Laplacian of _lap_spherical_harmonics_l1 / _l2 equals -l(l+1)/r^2
\* times the value of _spherical_harmonics_l1 / _l2 for the same m
C30_LaplacianIsEigenvalueTimesValue ==
    \A i \in 1..3, j \in 1..3 :
       ReturnedValueAndLaplacian(i, j) =>
          \A p \in 1..Len(call.pos) :
             harm.bas_l[p] \in {1, 2} =>
                LaplacianIsEigenvalueTimesValue(p, HarmonicsOutput(j)[p],
                                                HarmonicsOutput(i)[p])

\* the same for l = 1 and for l = 2 with m in {-2, -1, 1}
C30_HoldsForL1AndProductsOfL2 ==
    \A i \in 1..3, j \in 1..3 :
       ReturnedValueAndLaplacian(i, j) =>
          \A p \in 1..Len(call.pos) :
             (harm.bas_l[p] = 1 \/ (harm.bas_l[p] = 2 /\ harm.bas_m[p] \in {-2, -1, 1})) =>
                LaplacianIsEigenvalueTimesValue(p, HarmonicsOutput(j)[p],
                                                HarmonicsOutput(i)[p])

\* the harmonic (2, 0) on the z axis at r = 1: the value and the Laplacian
\* returned are both twice the constant, where the Laplacian is -12 times it
C30_Y20LaplacianOnAxis ==
    /\ ReturnedValueAndLaplacian(1, 3)
    /\ \E p \in 1..Len(call.pos) :
          /\ harm.bas_l[p] = 2 /\ harm.bas_m[p] = 0 /\ call.pos[p] = <<0, 0, 1>>
          /\ HarmonicsOutput(1)[p] = 2 * c0_l2
          /\ HarmonicsOutput(3)[p] = 2 * c0_l2

\* the harmonic (2, 2) at (1, 2, 0): the Laplacian returned is 15 times the
\* constant, without the division by r^6 of its last two terms
C30_Y22LaplacianOffAxis ==
    /\ ReturnedValueAndLaplacian(1, 3)
    /\ \E p \in 1..Len(call.pos) :
          /\ harm.bas_l[p] = 2 /\ harm.bas_m[p] = 2 /\ call.pos[p] = <<1, 2, 0>>
          /\ HarmonicsOutput(3)[p] = 15 * c2_l2

============================================================================
